---------------------------- MODULE Spec2Model ----------------------------
(***************************************************************************)
(* A model of the resume_matcher scoring core: the skill normalizer        *)
(* (utils/preprocessing.py), the rule-based scorer (scoring/rule_based.py),*)
(* the classifier (scoring/scorer.py), the semantic matcher                *)
(* (models/semantic_matcher.py) and the section segmenter                  *)
(* (parsers/base_parser.py).                                               *)
(*                                                                         *)
(* Text is modelled by TLA+ strings, handled character by character with   *)
(* Len, SubSeq and \o, so that lower-casing, stripping, splitting and the  *)
(* substring tests of the code are computed, not assumed.  Python values   *)
(* of varying type are tagged records [type |-> ..., ...].                 *)
(*                                                                         *)
(* Each component has its own specification (SpecNormalizer, SpecScorer,   *)
(* SpecClassifier, SpecMatcher, SpecSegmenter); the variables of the other *)
(* components stay at their idle values.                                   *)
(***************************************************************************)
EXTENDS Integers, Sequences, FiniteSets, TLC

VARIABLES
    \* ---- normalize_skill_set (utils/preprocessing.py)
    raw_skills,      \* the input sequence of raw items
    normalized,      \* normalize_skill_set(raw_skills)
    renormalized,    \* normalize_skill_set(normalized)
    nz_pc            \* "input", "once", "twice"

nz_vars == <<raw_skills, normalized, renormalized, nz_pc>>

VARIABLES
    \* ---- RuleBasedScorer.score (scoring/rule_based.py)
    resume,            \* the resume record handed to score
    job,               \* the job record handed to score
    resume_skills,     \* the local resume_skills, once score has returned
    required_skills,   \* the local required_skills, once score has returned
    must_have,         \* the local must_have, once score has returned
    total,             \* the returned score
    breakdown,         \* the returned breakdown
    matched_required,  \* the returned list(matched_required)
    missing_required,  \* the returned list(required_skills - matched_required)
    sc_heap,           \* the breakdown dicts created so far, by object identity
    sc_held,           \* the identities of the dicts returned by the calls so far
    sc_pc              \* "call", "returned", "raised"

sc_vars ==
    <<resume, job, resume_skills, required_skills, must_have, total, breakdown,
      matched_required, missing_required, sc_heap, sc_held, sc_pc>>

VARIABLES
    \* ---- ResumeScorer (scoring/scorer.py)
    suitable_threshold,  \* self.suitable_threshold
    maybe_threshold,     \* self.maybe_threshold
    cl_score,            \* the score of the latest classify call
    cl_label,            \* the label it returned
    cl_prev_score,       \* the score of the classify call before it
    cl_prev_label,       \* the label that call returned
    cl_pc                \* "ready", "returned"

cl_vars ==
    <<suitable_threshold, maybe_threshold, cl_score, cl_label, cl_prev_score,
      cl_prev_label, cl_pc>>

VARIABLES
    \* ---- SemanticMatcher (models/semantic_matcher.py)
    model,             \* self.model
    job_embedding,     \* self._job_embedding
    tfidf_vectorizer,  \* self._tfidf_vectorizer
    tfidf_job_vec,     \* self._tfidf_job_vec
    sm_op,             \* the method of the latest call
    sm_job,            \* its job_data
    sm_resume,         \* its resume_data
    sm_status,         \* "ready", "returned", "raised"
    sm_result,         \* the value it returned
    semantic,          \* the local semantic of compute_composite_score
    skill_coverage,    \* the local skill_coverage of compute_composite_score
    composites         \* the (semantic, skill_coverage, score) of the
                       \* compute_composite_score calls that returned so far

sm_vars ==
    <<model, job_embedding, tfidf_vectorizer, tfidf_job_vec, sm_op, sm_job,
      sm_resume, sm_status, sm_result, semantic, skill_coverage, composites>>

VARIABLES
    \* ---- ResumeParser.detect_sections (parsers/base_parser.py)
    sg_text,          \* the argument text
    lines,            \* text.split('\n')
    sg_i,             \* the number of lines the loop has handled
    current_section,  \* current_section
    current_content,  \* current_content
    sections,         \* sections
    saved,            \* every assignment sections[kind] = content made so
                      \* far, with the current_content it was made from
    sg_pc             \* "call", "loop", "returned"

sg_vars ==
    <<sg_text, lines, sg_i, current_section, current_content, sections, saved,
      sg_pc>>

VARIABLES
    \* ---- SemanticMatcher.compute_similarity called from several threads
    th_job,               \* the job every thread passes
    th_resume,            \* thread -> the resume it passes
    th_job_embedding,     \* self._job_embedding
    th_vectorizers,       \* the TfidfVectorizer objects created so far, by identity
    th_tfidf_vectorizer,  \* self._tfidf_vectorizer: an identity, 0 for None
    th_tfidf_job_vec,     \* self._tfidf_job_vec
    th_fitting,           \* thread -> the vectorizer its fit_transform runs on
    th_bert_sim,          \* thread -> its local bert_sim, in units of 1/Scale
    th_resume_vec,        \* thread -> the text its resume_vec was transformed under
    th_result,            \* thread -> the value its call returned
    th_pc                 \* thread -> the statement it is at

th_vars ==
    <<th_job, th_resume, th_job_embedding, th_vectorizers, th_tfidf_vectorizer,
      th_tfidf_job_vec, th_fitting, th_bert_sim, th_resume_vec, th_result, th_pc>>

VARIABLES
    \* ---- ResumeParser.extract_experience (parsers/base_parser.py)
    ex_blocks,    \* the job blocks the experience section is made of
    ex_text,      \* sections[SectionType.EXPERIENCE]
    job_entries,  \* the entries of _split_job_entries, each as its lines
    experiences,  \* the returned list of Experience records
    ex_pc         \* "call", "split", "returned"

ex_vars == <<ex_blocks, ex_text, job_entries, experiences, ex_pc>>

VARIABLES
    \* ---- ResumeParser.parse (parsers/base_parser.py)
    pr_input,       \* the argument text
    pr_text,        \* the local text, after clean_text
    pr_sections,    \* the local sections
    pr_contact,     \* the local contact
    pr_skills,      \* the local skills
    pr_experience,  \* the local experience
    pr_education,   \* the local education
    pr_fault,       \* the exception raised inside the try block, if any
    pr_result,      \* the returned mapping
    pr_pc           \* the statement parse is at; "returned" or "raised" at the end

pr_vars == <<pr_input, pr_text, pr_sections, pr_contact, pr_skills, pr_experience,
             pr_education, pr_fault, pr_result, pr_pc>>

VARIABLES
    \* ---- ResumeParser._extract_date_range (parsers/base_parser.py)
    dr_text,   \* the argument text
    dr_dates,  \* the returned pair, or None
    dr_pc      \* "call", "returned"

dr_vars == <<dr_text, dr_dates, dr_pc>>

VARIABLES
    \* ---- ResumeParser.extract_skills (parsers/base_parser.py)
    sk_text,    \* the argument text
    sk_skills,  \* the returned mapping
    sk_pc       \* "call", "returned"

sk_vars == <<sk_text, sk_skills, sk_pc>>

vars == <<nz_vars, sc_vars, cl_vars, sm_vars, sg_vars, th_vars, ex_vars, pr_vars, dr_vars, sk_vars>>

(***************************************************************************)
(* Bounds of the model.                                                    *)
(***************************************************************************)
\* longest raw skill list handed to normalize_skill_set on its own
MaxRaw == 2
\* longest skill list of a resume
MaxSkills == 2
\* most entries of a resume over its education, experience, projects and
\* work_experience lists
MaxEntries == 3
\* set iteration orders considered for list(a_set): rotations 0..MaxHashSeed
MaxHashSeed == 1
\* largest threshold of a classifier, in tenths; scores run one unit beyond
MaxUnits == 8
\* sentence encoders considered: models 0..MaxModel
MaxModel == 1
\* a similarity is a multiple of 1/Scale
Scale == 10
\* most compute_composite_score results remembered for one matcher
MaxSeen == 3
\* most lines of a text handed to detect_sections
MaxLines == 4
\* calls of score made by one caller
MaxCalls == 2
\* most entries of a resume whose entries are of mixed shapes
MaxShapeEntries == 2
\* threads calling compute_similarity on one matcher
MaxThreads == 2
\* most bullet lines of one job block
MaxBullets == 2
\* most pieces of a text given to _extract_date_range
MaxDatePieces == 3
\* most pieces of a text given to extract_skills
MaxSkillPieces == 2

(***************************************************************************)
(* Python values.                                                          *)
(***************************************************************************)
Str(s) == [type |-> "str", val |-> s]
\* a value that is not a string (an int, None, ...): isinstance(v, str) fails
NonStr(s) == [type |-> "other", val |-> s]
isinstance_str(v) == v.type = "str"

Range(seq) == {seq[i] : i \in 1..Len(seq)}

\* all sequences over S of length at most n
RECURSIVE SeqsUpTo(_, _)
SeqsUpTo(S, n) ==
    IF n = 0 THEN {<<>>}
    ELSE LET shorter == SeqsUpTo(S, n - 1)
         IN  shorter \cup {Append(q, x) : q \in {r \in shorter : Len(r) = n - 1}, x \in S}

(***************************************************************************)
(* Character-level string operations (Python str methods and re).          *)
(***************************************************************************)
CharAt(s, i) == SubSeq(s, i, i)

UpperAlphabet == "ABCDEFGHIJKLMNOPQRSTUVWXYZ"
LowerAlphabet == "abcdefghijklmnopqrstuvwxyz"

LowerOf ==
    [c \in {CharAt(UpperAlphabet, i) : i \in 1..26} |->
        CharAt(LowerAlphabet, CHOOSE i \in 1..26 : CharAt(UpperAlphabet, i) = c)]

\* str.lower() on one character
LowerChar(c) == IF c \in DOMAIN LowerOf THEN LowerOf[c] ELSE c

\* str.lower()
RECURSIVE str_lower(_)
str_lower(s) == IF s = "" THEN "" ELSE LowerChar(CharAt(s, 1)) \o str_lower(Tail(s))

\* \s of re, and the characters str.strip() removes
IsSpace(c) == c \in {" ", "\t", "\n"}

RECURSIVE lstrip(_)
lstrip(s) == IF s # "" /\ IsSpace(CharAt(s, 1)) THEN lstrip(Tail(s)) ELSE s

RECURSIVE rstrip(_)
rstrip(s) ==
    IF s # "" /\ IsSpace(CharAt(s, Len(s))) THEN rstrip(SubSeq(s, 1, Len(s) - 1)) ELSE s

\* str.strip()
str_strip(s) == rstrip(lstrip(s))

\* text.split("(")[0]: the text before the first "("
RECURSIVE BeforeParen(_)
BeforeParen(s) ==
    IF s = "" \/ CharAt(s, 1) = "(" THEN "" ELSE CharAt(s, 1) \o BeforeParen(Tail(s))

\* s.replace("/", " ").replace("-", " ")
RECURSIVE ReplaceSeparators(_)
ReplaceSeparators(s) ==
    IF s = "" THEN ""
    ELSE (IF CharAt(s, 1) \in {"/", "-"} THEN " " ELSE CharAt(s, 1))
         \o ReplaceSeparators(Tail(s))

\* _WHITESPACE_RE.sub(" ", s): every run of whitespace becomes one space
RECURSIVE CollapseWhitespace(_)
CollapseWhitespace(s) ==
    IF s = "" THEN ""
    ELSE IF IsSpace(CharAt(s, 1))
         THEN " " \o CollapseWhitespace(lstrip(s))
         ELSE CharAt(s, 1) \o CollapseWhitespace(Tail(s))

\* Python's `sub in s` on strings
Contains(sub, s) ==
    \E i \in 1..(Len(s) - Len(sub) + 1) : SubSeq(s, i, i + Len(sub) - 1) = sub

\* str.split(): the whitespace-separated words of s (as a set; callers only
\* iterate over them)
RECURSIVE WordAt(_)
WordAt(s) == IF s = "" \/ IsSpace(CharAt(s, 1)) THEN "" ELSE CharAt(s, 1) \o WordAt(Tail(s))

RECURSIVE str_split(_)
str_split(s) ==
    LET t == lstrip(s)
        w == WordAt(t)
    IN  IF t = "" THEN <<>> ELSE <<w>> \o str_split(SubSeq(t, Len(w) + 1, Len(t)))

(***************************************************************************)
(* utils/preprocessing.py                                                  *)
(***************************************************************************)
\* normalize_text
normalize_text(text) ==
    IF ~isinstance_str(text) THEN ""
    ELSE str_lower(str_strip(BeforeParen(text.val)))

\* normalize_skill_string
normalize_skill_string(skill) ==
    str_strip(CollapseWhitespace(ReplaceSeparators(normalize_text(skill))))

\* the synonym table of expand_skill_synonyms
mapping ==
    [sk \in {"rest api development", "rest api", "ci cd pipelines", "nosql databases",
             "amazon web services", "aws", "graphql", "microservices architecture"} |->
        CASE sk = "rest api development" -> {"rest", "api", "rest api"}
          [] sk = "rest api" -> {"rest", "api"}
          [] sk = "ci cd pipelines" -> {"cicd", "ci", "cd", "ci cd"}
          [] sk = "nosql databases" -> {"nosql"}
          [] sk = "amazon web services" -> {"aws"}
          [] sk = "aws" -> {"amazon web services"}
          [] sk = "graphql" -> {"graph ql"}
          [] sk = "microservices architecture" -> {"microservices"}]

\* expand_skill_synonyms
expand_skill_synonyms(skills) ==
    skills \cup UNION {mapping[sk] : sk \in skills \cap DOMAIN mapping}

\* the filter of normalize_skill_set: isinstance(s, str) and s.strip()
KeepsRaw(s) == isinstance_str(s) /\ str_strip(s.val) # ""

\* normalize_skill_set: raw_items is the collection iterated over
normalize_skill_set(raw_items) ==
    expand_skill_synonyms({normalize_skill_string(s) : s \in {r \in raw_items : KeepsRaw(r)}})

(***************************************************************************)
(* The records RuleBasedScorer.score reads.  A dict entry with a key set   *)
(* to None or left out reads as None here; `(x or "")` is or_empty.        *)
(***************************************************************************)
None == NonStr("None")
or_empty(v) == IF isinstance_str(v) THEN v.val ELSE ""

\* a value of a skills mapping, or a flat skills list
PyList(items) == [type |-> "list", items |-> items]
NotAList == [type |-> "other", items |-> <<>>]
\* resume["skills"] / resume["technical_skills"]: a mapping category -> value
\* (cats: its values), a flat list, or something else
SkillDict(cats) == [type |-> "dict", cats |-> cats]
SkillList(items) == [type |-> "list", cats |-> <<PyList(items)>>]
SkillOther == [type |-> "other", cats |-> <<>>]

EduDict(degree, field) == [type |-> "dict", degree |-> degree, field |-> field, text |-> ""]
EduStr(text) == [type |-> "str", degree |-> None, field |-> None, text |-> text]
EduOther == [type |-> "other", degree |-> None, field |-> None, text |-> ""]

DescList(items) == [type |-> "list", items |-> items, val |-> ""]
DescStr(s) == [type |-> "str", items |-> <<>>, val |-> s]
DescNone == [type |-> "none", items |-> <<>>, val |-> ""]
ExpDict(title, company, description) ==
    [type |-> "dict", title |-> title, company |-> company,
     description |-> description, text |-> ""]
ExpStr(text) ==
    [type |-> "str", title |-> None, company |-> None, description |-> DescNone,
     text |-> text]
ExpOther ==
    [type |-> "other", title |-> None, company |-> None, description |-> DescNone,
     text |-> ""]

ProjDict(technologies) == [type |-> "dict", technologies |-> technologies, text |-> ""]
ProjStr(text) == [type |-> "str", technologies |-> <<>>, text |-> text]
ProjOther == [type |-> "other", technologies |-> <<>>, text |-> ""]

Max(a, b) == IF a >= b THEN a ELSE b
Min(a, b) == IF a <= b THEN a ELSE b

\* sep.join(strings)
RECURSIVE str_join(_, _)
str_join(sep, strings) ==
    IF strings = <<>> THEN ""
    ELSE IF Len(strings) = 1 THEN strings[1]
    ELSE strings[1] \o sep \o str_join(sep, Tail(strings))

\* [d for d in items if isinstance(d, str)]
RECURSIVE OnlyStrings(_)
OnlyStrings(items) ==
    IF items = <<>> THEN <<>>
    ELSE (IF isinstance_str(Head(items)) THEN <<Head(items).val>> ELSE <<>>)
         \o OnlyStrings(Tail(items))

\* flatten_experience_description
flatten_experience_description(exp_item) ==
    IF exp_item.type = "dict"
    THEN LET desc == exp_item.description
         IN  IF desc.type = "list" THEN str_join(" ", OnlyStrings(desc.items))
             ELSE IF desc.type = "str" THEN desc.val
             ELSE "None"
    ELSE IF exp_item.type = "str" THEN exp_item.text
    ELSE ""

(***************************************************************************)
(* config.py                                                               *)
(***************************************************************************)
weights ==
    [required_skill_point |-> 10, preferred_skill_point |-> 3,
     experience_title_point |-> 5, experience_desc_bonus |-> 1,
     experience_desc_bonus_cap |-> 10, education_full |-> 10,
     education_partial |-> 5, projects_cap |-> 10, company_point |-> 8,
     company_cap |-> 20]

MUST_HAVE_PENALTY == 30

\* the literal cap of experience_score
ExperienceCap == 15
\* the points of one project technology that is a required skill
ProjectPoint == 2
\* the literal cap of the returned score
TotalCap == 100

(***************************************************************************)
(* RuleBasedScorer.score, section by section.                              *)
(***************************************************************************)
\* the strings one skill source contributes to resume_raw_skills
SourceRawSkills(skill_source) ==
    IF skill_source.type \in {"dict", "list"}
    THEN UNION {{s \in Range(skill_list.items) : isinstance_str(s)} :
                skill_list \in {c \in Range(skill_source.cats) : c.type = "list"}}
    ELSE {}

\* resume_skills
ResumeSkills(r) ==
    normalize_skill_set(SourceRawSkills(r.skills) \cup SourceRawSkills(r.technical_skills))

RequiredSkills(j) == normalize_skill_set(Range(j.required_skills))
PreferredSkills(j) == normalize_skill_set(Range(j.preferred_skills))
MustHaveSkills(j) == normalize_skill_set(Range(j.must_have_skills))

\* the members of subs that are substrings of text
ContainedIn(subs, text) == {sub \in subs : Contains(sub, text)}

\* LongParts without the length filter
LongParts_AllParts(skill_parts) == Range(skill_parts)

\* [part for part in skill_parts if len(part) > 2]
LongParts(skill_parts) == {part \in Range(skill_parts) : Len(part) > 2}

\* any(part in resume_skill for part in skill_parts if len(part) > 2), for
\* some resume skill
AnyPartIn(parts, skills_of_resume) ==
    \E resume_skill \in skills_of_resume : ContainedIn(parts, resume_skill) # {}

PartialMatch(skill, skills_of_resume) == AnyPartIn(LongParts(str_split(skill)), skills_of_resume)

\* MatchedSkills with the partial-matching loop adding the resume skill that
\* matched instead of the wanted skill
MatchedSkills_AddsResumeSkill(wanted, skills_of_resume) ==
    (skills_of_resume \cap wanted)
    \cup {resume_skill \in skills_of_resume :
            \E sk \in wanted : /\ sk \notin skills_of_resume
                               /\ AnyPartIn(LongParts(str_split(sk)), {resume_skill})}

\* matched_required / matched_preferred after the partial-matching loop
MatchedSkills(wanted, skills_of_resume) ==
    (skills_of_resume \cap wanted)
    \cup {sk \in wanted : sk \notin skills_of_resume /\ PartialMatch(sk, skills_of_resume)}

SkillsScore(matched_req, matched_pref) ==
    Cardinality(matched_req) * weights.required_skill_point
    + Cardinality(matched_pref) * weights.preferred_skill_point

\* the credit of an entry whose degree holds the first word of the requirement
EducationCredit(req, field) ==
    IF /\ Contains("computer", req)
       /\ Contains("science", req)
       /\ (Contains("computer", field) \/ Contains("comput", field))
    THEN weights.education_full
    ELSE Max(0, weights.education_partial)

EduDegree(edu) ==
    IF edu.type = "dict" THEN str_lower(or_empty(edu.degree)) ELSE str_lower(edu.text)
EduField(edu) ==
    IF edu.type = "dict" THEN str_lower(or_empty(edu.field)) ELSE str_lower(edu.text)

\* EducationScore without the break: every entry is examined and the best
\* credit is kept
RECURSIVE EducationScore_BestEntry(_, _, _, _)
EducationScore_BestEntry(education, req, base, i) ==
    IF i > Len(education) THEN 0
    ELSE IF education[i].type \notin {"dict", "str"}
         THEN EducationScore_BestEntry(education, req, base, i + 1)
    ELSE IF base # "" /\ Contains(base, EduDegree(education[i]))
         THEN Max(EducationCredit(req, EduField(education[i])),
                  EducationScore_BestEntry(education, req, base, i + 1))
    ELSE EducationScore_BestEntry(education, req, base, i + 1)

\* the education loop from entry i on, with its break at the first entry
\* whose degree holds base, the first word of the requirement req
RECURSIVE EducationScore(_, _, _, _)
EducationScore(education, req, base, i) ==
    IF i > Len(education) THEN 0
    ELSE IF education[i].type \notin {"dict", "str"}
         THEN EducationScore(education, req, base, i + 1)
    ELSE IF base # "" /\ Contains(base, EduDegree(education[i]))
         THEN EducationCredit(req, EduField(education[i]))
    ELSE EducationScore(education, req, base, i + 1)

\* base = req.split()[0] if req else ""
EduBase(req) == IF req # "" THEN str_split(req)[1] ELSE ""

\* title and desc_text of one experience entry
ExpTitle(exp) ==
    IF exp.type = "dict" THEN str_lower(or_empty(exp.title)) ELSE str_lower(exp.text)
ExpDescText(exp) == str_lower(flatten_experience_description(exp))

\* exp_score after the experience loop
RECURSIVE ExpTitleScore(_, _)
ExpTitleScore(experience, required) ==
    IF experience = <<>> THEN 0
    ELSE (IF /\ Head(experience).type \in {"dict", "str"}
             /\ ContainedIn(required, ExpTitle(Head(experience))) # {}
          THEN weights.experience_title_point ELSE 0)
         + ExpTitleScore(Tail(experience), required)

\* desc_bonus after the experience loop, before its cap
RECURSIVE ExpDescBonus(_, _)
ExpDescBonus(experience, required) ==
    IF experience = <<>> THEN 0
    ELSE (IF Head(experience).type \in {"dict", "str"}
          THEN Cardinality(ContainedIn(required, ExpDescText(Head(experience))))
               * weights.experience_desc_bonus
          ELSE 0)
         + ExpDescBonus(Tail(experience), required)

\* desc_bonus = min(desc_bonus, cap)
CappedDescBonus(experience, required) ==
    Min(ExpDescBonus(experience, required), weights.experience_desc_bonus_cap)

ExperienceScore(experience, required) ==
    Min(ExpTitleScore(experience, required) + CappedDescBonus(experience, required),
        ExperienceCap)

\* techs of one project
ProjectTechs(proj, required) ==
    IF proj.type = "dict" THEN {str_lower(t.val) : t \in Range(proj.technologies)}
    ELSE IF proj.type = "str" THEN ContainedIn(required, str_lower(proj.text))
    ELSE {}

\* proj_score after the projects loop
RECURSIVE ProjScore(_, _)
ProjScore(projects, required) ==
    IF projects = <<>> THEN 0
    ELSE Cardinality(ProjectTechs(Head(projects), required) \cap required) * ProjectPoint
         + ProjScore(Tail(projects), required)

ProjectsScore(projects, required) == Min(ProjScore(projects, required), weights.projects_cap)

\* company_score after one of the two company loops
RECURSIVE CompanyPoints(_, _)
CompanyPoints(entries, preferred_companies) ==
    IF entries = <<>> THEN 0
    ELSE (IF /\ Head(entries).type = "dict"
             /\ ContainedIn(preferred_companies,
                            str_lower(or_empty(Head(entries).company))) # {}
          THEN weights.company_point ELSE 0)
         + CompanyPoints(Tail(entries), preferred_companies)

PreferredCompanies(j) == {str_lower(c) : c \in Range(j.preferred_companies)}

\* CompanyScore without its cap
CompanyScore_NoCap(r, preferred_companies) ==
    CompanyPoints(r.experience, preferred_companies)
    + CompanyPoints(r.work_experience, preferred_companies)

CompanyScore(r, preferred_companies) ==
    Min(CompanyPoints(r.experience, preferred_companies)
        + CompanyPoints(r.work_experience, preferred_companies),
        weights.company_cap)

\* breakdown, from the sets score computes first
Breakdown(r, j, skills_of_resume, required, req) ==
    [skills_score |-> SkillsScore(MatchedSkills(required, skills_of_resume),
                                  MatchedSkills(PreferredSkills(j), skills_of_resume)),
     education_score |-> EducationScore(r.education, req, EduBase(req), 1),
     experience_score |-> ExperienceScore(r.experience, required),
     projects_score |-> ProjectsScore(r.projects, required),
     company_score |-> CompanyScore(r, PreferredCompanies(j))]

SumOf(b) ==
    b.skills_score + b.education_score + b.experience_score + b.projects_score
    + b.company_score

\* missing_must with a must-have skill counted as present when the
\* partial-matching pass matches it
MissingMust_UnlessPartial(must, skills_of_resume) ==
    {s \in must : s \notin skills_of_resume /\ ~PartialMatch(s, skills_of_resume)}

\* missing_must
MissingMust(must, skills_of_resume) == {s \in must : s \notin skills_of_resume}

\* FinalScore without the floor at 0
FinalScore_NoFloor(score, missing_must) ==
    Min(IF missing_must # {} THEN score - MUST_HAVE_PENALTY ELSE score, TotalCap)

\* FinalScore with the penalty taken once per missing must-have skill
FinalScore_PerSkill(score, missing_must) ==
    Min(Max(0, score - MUST_HAVE_PENALTY * Cardinality(missing_must)), TotalCap)

\* the must-have penalty and the final cap
FinalScore(score, missing_must) ==
    Min(IF missing_must # {} THEN Max(0, score - MUST_HAVE_PENALTY) ELSE score, TotalCap)

\* what score returns, the two lists still as sets, and its locals
ScoreOf(b, matched, skills, required, must) ==
    [total |-> FinalScore(SumOf(b), MissingMust(must, skills)), breakdown |-> b,
     matched |-> matched, missing |-> required \ matched,
     resume_skills |-> skills, required_skills |-> required, must_have |-> must]

ScoreWith(r, j, skills, required) ==
    ScoreOf(Breakdown(r, j, skills, required, str_lower(j.education_required)),
            MatchedSkills(required, skills), skills, required, MustHaveSkills(j))

ScoreResult(r, j) == ScoreWith(r, j, ResumeSkills(r), RequiredSkills(j))

\* list(a_set): the elements in the set's iteration order, which depends on
\* the interpreter's string hashing; the orders considered are the rotations
\* of one enumeration
RECURSIVE Enumerate(_)
Enumerate(S) ==
    IF S = {} THEN <<>>
    ELSE LET x == CHOOSE y \in S : TRUE IN <<x>> \o Enumerate(S \ {x})

list_of_set(S, seed) ==
    LET e == Enumerate(S)
        n == Len(e)
    IN  [i \in 1..n |-> e[((i - 1 + seed) % n) + 1]]

\* the calls of score that end in an exception instead of returning:
\* t.lower() on a technology that is not a string, and req.split()[0] on a
\* requirement of blanks only
ScoreRaises(r, j) ==
    \/ \E i \in 1..Len(r.projects) :
          /\ r.projects[i].type = "dict"
          /\ \E t \in Range(r.projects[i].technologies) : ~isinstance_str(t)
    \/ /\ j.education_required # ""
       /\ str_split(j.education_required) = <<>>
       /\ \E i \in 1..Len(r.education) : r.education[i].type \in {"dict", "str"}

(***************************************************************************)
(* The inputs of score: every resume built from the pools below within the *)
(* bounds, against every job of Jobs.                                      *)
(***************************************************************************)
ResumeSkillPool ==
    {Str("REST API Development"), Str("CI/CD Pipelines (advanced)"), Str("javascript (ES6)")}

\* the skills lists of the resumes: one list per set of at most MaxSkills pool
\* skills (score builds a set from the list at once, so neither the order of
\* a list nor a repetition in it can matter)
ResumeSkillLists ==
    {Enumerate(S) : S \in {T \in SUBSET ResumeSkillPool : Cardinality(T) <= MaxSkills}}

TechnicalSkillsPool ==
    {SkillDict(<<PyList(<<Str("Python"), NonStr("7")>>), NotAList>>), SkillOther}

EducationPool ==
    {EduDict(Str("Bachelor"), Str("Computer Science")),
     EduStr("Bachelor of Arts in History, Master of Arts")}

ExperiencePool ==
    {ExpDict(Str("Senior REST API Developer"), Str("Acme Corp"),
             DescList(<<Str("Built REST API services"), NonStr("3"),
                        Str("CI CD pipelines on AWS")>>)),
     ExpStr("Python specialist at Initech")}

ProjectsPool ==
    {ProjStr("REST API with CI CD on AWS"), ProjDict(<<Str("Python"), Str("AWS")>>)}

WorkExperiencePool == {ExpDict(None, Str("ACME Labs"), DescNone)}

\* a resume holds at most MaxSkills skills in its skills list and at most
\* MaxEntries entries over its four entry lists
Resumes ==
    {r \in [skills : {SkillList(l) : l \in ResumeSkillLists},
            technical_skills : TechnicalSkillsPool,
            education : SeqsUpTo(EducationPool, MaxEntries),
            experience : SeqsUpTo(ExperiencePool, MaxEntries),
            projects : SeqsUpTo(ProjectsPool, MaxEntries),
            work_experience : SeqsUpTo(WorkExperiencePool, MaxEntries)] :
        Len(r.education) + Len(r.experience) + Len(r.projects) + Len(r.work_experience)
            <= MaxEntries}

Job(required, preferred, must, companies, education) ==
    [required_skills |-> required, preferred_skills |-> preferred,
     must_have_skills |-> must, preferred_companies |-> companies,
     education_required |-> education]

Jobs ==
    {Job(<<>>, <<>>, <<>>, <<>>, ""),
     Job(<<Str("Python")>>, <<Str("Docker")>>, <<Str("Python"), Str("AWS")>>, <<"Initech">>,
         "Master"),
     Job(<<Str("CI/CD Pipelines")>>, <<>>, <<Str("Python")>>, <<>>,
         "Bachelor Computer Science"),
     Job(<<Str("Java Development"), Str("(any)"), Str("Web-API"), Str("AWS"), Str("R")>>,
         <<Str("AWS"), Str("Python")>>, <<Str("Docker"), Str("Kubernetes")>>, <<"Acme">>,
         "Bachelor Computer Science"),
     Job(<<Str("REST API Development"), Str("CI/CD Pipelines"), Str("AWS")>>,
         <<Str("Python"), NonStr("1")>>, <<Str("Python")>>, <<"ACME", "Initech">>,
         "bachelor"),
     Job(<<Str("Python")>>, <<>>, <<>>, <<>>, " "),
     Job(<<Str("REST API Design")>>, <<>>, <<Str("REST API Design")>>, <<>>, "")}

(***************************************************************************)
(* scoring/scorer.py.  Scores and thresholds are counted in units of one   *)
(* tenth: the default thresholds 0.8 and 0.5 are 8 and 5.                  *)
(***************************************************************************)
\* classify with strict comparisons
classify_Strict(suitable, maybe, score) ==
    IF score > suitable THEN "Suitable"
    ELSE IF score > maybe THEN "Maybe Suitable"
    ELSE "Not Suitable"

\* classify with the two tests in the other order
classify_MaybeFirst(suitable, maybe, score) ==
    IF score >= maybe THEN "Maybe Suitable"
    ELSE IF score >= suitable THEN "Suitable"
    ELSE "Not Suitable"

\* ResumeScorer.classify
classify(suitable, maybe, score) ==
    IF score >= suitable THEN "Suitable"
    ELSE IF score >= maybe THEN "Maybe Suitable"
    ELSE "Not Suitable"

(***************************************************************************)
(* Fractions, for the floats of the semantic matcher: [num, den] in lowest *)
(* terms with den > 0.                                                     *)
(***************************************************************************)
Abs(n) == IF n < 0 THEN -n ELSE n

RECURSIVE GCD(_, _)
GCD(a, b) == IF b = 0 THEN a ELSE GCD(b, a % b)

Reduce(n, d, g) == [num |-> n \div g, den |-> d \div g]
Rat(n, d) == Reduce(n, d, GCD(Abs(n), d))
RatAdd(a, b) == Rat(a.num * b.den + b.num * a.den, a.den * b.den)
RatMul(a, b) == Rat(a.num * b.num, a.den * b.den)
RatLeq(a, b) == a.num * b.den <= b.num * a.den
RatLess(a, b) == a.num * b.den < b.num * a.den
RatMax(a, b) == IF RatLeq(b, a) THEN a ELSE b
RatMin(a, b) == IF RatLeq(a, b) THEN a ELSE b
Zero == Rat(0, 1)
One == Rat(1, 1)
Hundred == Rat(100, 1)
\* no float: the value of a local that does not exist
NoValue == [num |-> 0, den |-> 0]

\* the largest k with k * k <= n, for n <= bound * bound
Isqrt(n, bound) == CHOOSE k \in 0..bound : k * k <= n /\ n < (k + 1) * (k + 1)

(***************************************************************************)
(* models/semantic_matcher.py: the texts compared.                         *)
(***************************************************************************)
\* job_data as the matcher reads it
MatcherJob(title, description, required, preferred) ==
    [title |-> title, description |-> description, required_skills |-> required,
     preferred_skills |-> preferred]

\* resume_data as the matcher reads it
MatcherResume(skills, technical_skills, experience) ==
    [skills |-> skills, technical_skills |-> technical_skills,
     experience |-> experience]

\* ' '.join(items) raises TypeError on an item that is not a string
JoinRaises(j) ==
    \E s \in Range(j.required_skills) \cup Range(j.preferred_skills) : ~isinstance_str(s)

StrVals(items) == [i \in 1..Len(items) |-> items[i].val]

\* _build_job_text
build_job_text(j) ==
    j.title \o " " \o j.description \o " " \o str_join(" ", StrVals(j.required_skills))
    \o " " \o str_join(" ", StrVals(j.preferred_skills))

\* the characters of the model's texts in code point order
CodePoints ==
    " !#&()+,-./0123456789:ABCDEFGHIJKLMNOPQRSTUVWXYZ_abcdefghijklmnopqrstuvwxyz"

OrdOf ==
    [c \in {CharAt(CodePoints, i) : i \in 1..Len(CodePoints)} |->
        CHOOSE i \in 1..Len(CodePoints) : CharAt(CodePoints, i) = c]

\* a < b on strings
RECURSIVE StrLess(_, _)
StrLess(a, b) ==
    IF b = "" THEN FALSE
    ELSE IF a = "" THEN TRUE
    ELSE IF CharAt(a, 1) = CharAt(b, 1) THEN StrLess(Tail(a), Tail(b))
    ELSE OrdOf[CharAt(a, 1)] < OrdOf[CharAt(b, 1)]

Least(S) == CHOOSE x \in S : \A y \in S \ {x} : StrLess(x, y)

\* sorted(a_set_of_strings)
RECURSIVE sorted(_)
sorted(S) == IF S = {} THEN <<>> ELSE <<Least(S)>> \o sorted(S \ {Least(S)})

\* exp_text
ExpText(experience) ==
    str_join(" ", [i \in 1..Len(experience) |->
                      flatten_experience_description(experience[i])])

\* resume_text
ResumeText(r) ==
    str_strip(str_join(" ", sorted(ResumeSkills(r))) \o " " \o ExpText(r.experience))

(***************************************************************************)
(* The two similarities.  The sentence encoder and the TF-IDF vectorizer   *)
(* are libraries; a similarity is a multiple of 1/Scale.                   *)
(***************************************************************************)
\* self.model.encode([text])[0]: the embedding of a text under a model,
\* known by what was encoded and by which model
encode(m, t) == [model |-> m, text |-> t]
NoEmbedding == [model |-> -1, text |-> ""]

\* util.cos_sim(a, b) in units of 1/Scale: 1 for equal embeddings, otherwise
\* a symmetric value in [-1, 1] fixed by the model and the two texts
cos_sim(a, b, scale) ==
    IF a = b THEN scale
    ELSE (((Len(a.text) + Len(b.text)) * (a.model + b.model + 3)) % (2 * scale + 1)) - scale

WordChars == "abcdefghijklmnopqrstuvwxyzABCDEFGHIJKLMNOPQRSTUVWXYZ0123456789_"
WordCharSet == {CharAt(WordChars, i) : i \in 1..Len(WordChars)}
\* \w of re
IsWordChar(c) == c \in WordCharSet

\* the longest prefix of s made of word characters
RECURSIVE WordRun(_)
WordRun(s) ==
    IF s = "" \/ ~IsWordChar(CharAt(s, 1)) THEN "" ELSE CharAt(s, 1) \o WordRun(Tail(s))

\* re.findall(r"\b\w\w+\b", s): the runs of two or more word characters
RECURSIVE TokensFrom(_, _)
TokensFrom(s, w) ==
    IF s = "" THEN <<>>
    ELSE IF w = "" THEN TokensFrom(Tail(s), WordRun(Tail(s)))
    ELSE (IF Len(w) >= 2 THEN <<w>> ELSE <<>>)
         \o TokensFrom(SubSeq(s, Len(w) + 1, Len(s)),
                       WordRun(SubSeq(s, Len(w) + 1, Len(s))))

word_tokens(s) == TokensFrom(s, WordRun(s))

\* the entries of stop_words='english' that occur in the texts of the model
StopWords == {"and", "the", "of", "with", "at", "on", "in", "for", "to", "an"}

NotStopWord(w) == w \notin StopWords

\* the 1-grams and 2-grams of a token list
Ngrams(toks) == toks \o [i \in 1..(Len(toks) - 1) |-> toks[i] \o " " \o toks[i + 1]]

\* the analyzer of TfidfVectorizer(stop_words='english', ngram_range=(1, 2))
analyze(t) == Ngrams(SelectSeq(word_tokens(str_lower(t)), NotStopWord))

Count(term, terms) == Cardinality({i \in 1..Len(terms) : terms[i] = term})

\* the sum over the vocabulary of the products of the term counts
RECURSIVE DotOver(_, _, _)
DotOver(vocabulary, a, b) ==
    IF vocabulary = {} THEN 0
    ELSE LET term == CHOOSE v \in vocabulary : TRUE
         IN  Count(term, a) * Count(term, b) + DotOver(vocabulary \ {term}, a, b)

CosineUnits(dot, job_norm, resume_norm, scale) ==
    IF dot = 0 THEN 0
    ELSE Isqrt((scale * scale * dot * dot) \div (job_norm * resume_norm), scale)

TfidfOver(vocabulary, job_terms, resume_terms, scale) ==
    CosineUnits(DotOver(vocabulary, job_terms, resume_terms),
                DotOver(vocabulary, job_terms, job_terms),
                DotOver(vocabulary, resume_terms, resume_terms), scale)

\* fit_transform([job_text]) raises ValueError on an empty vocabulary
FitRaises(job_text) == analyze(job_text) = <<>>

\* cosine_similarity(self._tfidf_job_vec, resume_vec) in units of 1/Scale,
\* rounded down: with one fitted document every idf is 1, so the vectors are
\* the term counts over the job's vocabulary
tfidf_sim(job_terms, resume_terms, scale) ==
    TfidfOver(Range(job_terms), job_terms, resume_terms, scale)

\* config.SEMANTIC_BERT_WEIGHT, config.SEMANTIC_TFIDF_WEIGHT
SEMANTIC_BERT_WEIGHT == Rat(7, 10)
SEMANTIC_TFIDF_WEIGHT == Rat(3, 10)

\* max(0.0, min(1.0, blended))
Blend(bert_sim, tfidf) ==
    RatMax(Zero, RatMin(One, RatAdd(RatMul(SEMANTIC_BERT_WEIGHT, bert_sim),
                                    RatMul(SEMANTIC_TFIDF_WEIGHT, tfidf))))

\* s.lower() raises AttributeError on a required skill that is not a string
LowerRaises(j) == \E s \in Range(j.required_skills) : ~isinstance_str(s)

\* required, in compute_skill_coverage
LoweredRequired(j) == {str_lower(s.val) : s \in Range(j.required_skills)}

\* len(required & resume_skills) / float(len(required)), or 0.0
CoverageOf(required, skills_of_resume) ==
    IF required = {} THEN Zero
    ELSE Rat(Cardinality(required \cap skills_of_resume), Cardinality(required))

\* compute_skill_coverage
compute_skill_coverage(j, r) == CoverageOf(LoweredRequired(j), ResumeSkills(r))

\* the weights of compute_composite_score
SemanticShare == Rat(6, 10)
CoverageShare == Rat(4, 10)

\* the composite with the two shares exchanged
CompositeOf_SharesExchanged(sem, cov) ==
    RatMax(Zero, RatMin(Hundred,
        RatMul(RatAdd(RatMul(CoverageShare, sem), RatMul(SemanticShare, cov)), Hundred)))

\* float(max(0.0, min(100.0, (0.6 * semantic + 0.4 * skill_coverage) * 100.0)))
CompositeOf(sem, cov) ==
    RatMax(Zero, RatMin(Hundred,
        RatMul(RatAdd(RatMul(SemanticShare, sem), RatMul(CoverageShare, cov)), Hundred)))

(***************************************************************************)
(* parsers/base_parser.py: section headers and detect_sections.            *)
(***************************************************************************)
\* self.section_patterns, in the order of the dict: each pattern is anchored
\* at both ends and is written here as the phrases it matches, one space
\* standing for \s+
section_patterns ==
    <<[section_type |-> "summary",
       phrases |-> {"summary", "professional summary", "objective", "career objective",
                    "profile", "about", "about me", "overview", "statement",
                    "career highlight", "career highlights"}],
      [section_type |-> "experience",
       phrases |-> {"experience", "professional experience", "work experience",
                    "work history", "employment", "employment history",
                    "career history", "professional background",
                    "relevant experience"}],
      [section_type |-> "education",
       phrases |-> {"education", "education and training", "academic background",
                    "academic history", "academic credentials", "qualifications",
                    "training", "education & certification",
                    "education & certifications"}],
      [section_type |-> "skills",
       phrases |-> {"skill", "skills", "technical skill", "technical skills",
                    "core competency", "core competencies", "area of expertise",
                    "areas of expertise", "technical expertise", "skill highlight",
                    "skill highlights", "qualifications", "capabilities"}],
      [section_type |-> "certifications",
       phrases |-> {"certification", "certifications", "license", "licenses",
                    "license and certification", "license and certifications",
                    "licenses and certification", "licenses and certifications",
                    "professional certification", "professional certifications",
                    "credential", "credentials"}],
      [section_type |-> "projects",
       phrases |-> {"project", "projects", "portfolio", "personal portfolio",
                    "key project", "key projects", "notable project",
                    "notable projects"}],
      [section_type |-> "accomplishments",
       phrases |-> {"accomplishment", "accomplishments", "achievement", "achievements",
                    "award", "awards", "award and honor", "award and honors",
                    "awards and honor", "awards and honors", "honor", "honors",
                    "honor and award", "honor and awards", "honors and award",
                    "honors and awards", "recognition", "notable achievement",
                    "notable achievements"}]>>

\* SectionType.HEADER
HEADER == "header"
\* the None of _identify_section_header
NoSection == "none"

\* re.sub(r'[:\-\s]+$', '', s)
RECURSIVE StripTrailingPunctuation(_)
StripTrailingPunctuation(s) ==
    IF s # "" /\ (CharAt(s, Len(s)) \in {":", "-"} \/ IsSpace(CharAt(s, Len(s))))
    THEN StripTrailingPunctuation(SubSeq(s, 1, Len(s) - 1))
    ELSE s

\* re.sub(r'^\W+', '', s)
RECURSIVE StripLeadingSymbols(_)
StripLeadingSymbols(s) ==
    IF s # "" /\ ~IsWordChar(CharAt(s, 1)) THEN StripLeadingSymbols(Tail(s)) ELSE s

\* clean_line
clean_line(line) ==
    StripLeadingSymbols(StripTrailingPunctuation(str_lower(str_strip(line))))

\* the longest cleaned line that can be a header
HeaderMaxLen == 50

\* re.match(pattern, clean) for the patterns of one section type: between
\* two words a pattern takes any run of whitespace
MatchesAny(phrases, clean) == CollapseWhitespace(clean) \in phrases

\* FirstMatch returning the last section type, in dict order, with a
\* matching pattern
RECURSIVE FirstMatch_LastWins(_, _, _)
FirstMatch_LastWins(patterns, clean, k) ==
    IF k > Len(patterns) THEN NoSection
    ELSE IF /\ MatchesAny(patterns[k].phrases, clean)
            /\ FirstMatch_LastWins(patterns, clean, k + 1) = NoSection
         THEN patterns[k].section_type
    ELSE FirstMatch_LastWins(patterns, clean, k + 1)

\* the first section type, in dict order, with a matching pattern
RECURSIVE FirstMatch(_, _, _)
FirstMatch(patterns, clean, k) ==
    IF k > Len(patterns) THEN NoSection
    ELSE IF MatchesAny(patterns[k].phrases, clean) THEN patterns[k].section_type
    ELSE FirstMatch(patterns, clean, k + 1)

HeaderOfClean(clean) ==
    IF Len(clean) > HeaderMaxLen THEN NoSection ELSE FirstMatch(section_patterns, clean, 1)

\* _identify_section_header
identify_section_header(line) == HeaderOfClean(clean_line(line))

\* text.split('\n')
RECURSIVE UpToNewline(_)
UpToNewline(s) ==
    IF s = "" \/ CharAt(s, 1) = "\n" THEN "" ELSE CharAt(s, 1) \o UpToNewline(Tail(s))

RECURSIVE SplitFrom(_, _)
SplitFrom(s, first) ==
    IF Len(first) = Len(s) THEN <<first>>
    ELSE <<first>> \o SplitFrom(SubSeq(s, Len(first) + 2, Len(s)),
                                UpToNewline(SubSeq(s, Len(first) + 2, Len(s))))

split_lines(s) == SplitFrom(s, UpToNewline(s))

\* not line.strip()
IsBlank(line) == str_strip(line) = ""

\* '\n'.join(current_content).strip()
ContentOf(content_lines) == str_strip(str_join("\n", content_lines))

\* current_content.append(line), replacing the content instead
AppendLine_Restarts(content_lines, line) == <<line>>

\* current_content.append(line)
AppendLine(content_lines, line) == Append(content_lines, line)

\* sections[kind] = content, keeping an earlier value of the key
SaveSection_KeepsFirst(mapping_so_far, kind, content) ==
    IF kind \in DOMAIN mapping_so_far THEN mapping_so_far
    ELSE [k \in DOMAIN mapping_so_far \cup {kind} |->
             IF k = kind THEN content ELSE mapping_so_far[k]]

\* sections[kind] = content
SaveSection(mapping_so_far, kind, content) ==
    [k \in DOMAIN mapping_so_far \cup {kind} |->
        IF k = kind THEN content ELSE mapping_so_far[k]]

(***************************************************************************)
(* The jobs, resumes and texts of the matcher and the segmenter.           *)
(***************************************************************************)
MatcherJobs ==
    {MatcherJob("Backend Engineer", "Build REST services with Python",
                <<Str("Python"), Str("AWS")>>, <<Str("Docker")>>),
     MatcherJob("DevOps Engineer", "", <<Str("CI/CD Pipelines")>>, <<>>),
     MatcherJob("", "", <<>>, <<>>),
     MatcherJob("Analyst", "", <<Str("Python"), NonStr("3")>>, <<>>)}

MatcherResumes ==
    {MatcherResume(SkillList(<<Str("CI/CD Pipelines"), Str("Python")>>), SkillOther,
                   <<ExpDict(Str("Engineer"), Str("Acme"),
                             DescStr("Build REST services with Python"))>>),
     MatcherResume(SkillDict(<<PyList(<<Str("AWS"), NonStr("7")>>), NotAList>>),
                   SkillList(<<Str("python")>>),
                   <<ExpStr("DevOps engineer at Initech")>>),
     MatcherResume(SkillOther, SkillOther, <<>>)}

\* job_text and resume_text of every job and resume, computed once
TextOfJob == [j \in {x \in MatcherJobs : ~JoinRaises(x)} |-> build_job_text(j)]
TextOfResume == [r \in MatcherResumes |-> ResumeText(r)]

\* the analyzed terms of every text, computed once
TermsOf ==
    [t \in {TextOfJob[j] : j \in DOMAIN TextOfJob}
           \cup {TextOfResume[r] : r \in DOMAIN TextOfResume} |-> analyze(t)]

\* tfidf_sim for every fitted job text and every resume text, computed once
TfidfTable ==
    [jt \in {TextOfJob[j] : j \in DOMAIN TextOfJob}, rt \in {TextOfResume[r] : r \in DOMAIN TextOfResume} |->
        IF TermsOf[jt] = <<>> THEN 0 ELSE tfidf_sim(TermsOf[jt], TermsOf[rt], Scale)]

\* compute_skill_coverage for every job and resume, computed once
CoverageTable ==
    [j \in {x \in MatcherJobs : ~LowerRaises(x)}, r \in MatcherResumes |->
        compute_skill_coverage(j, r)]

\* the return value of compute_similarity for a cached job embedding, a
\* fitted job text and a resume text
SimilarityOf(m, embedding, fitted_text, resume_text) ==
    Blend(Rat(cos_sim(embedding, encode(m, resume_text), Scale), Scale),
          Rat(TfidfTable[fitted_text, resume_text], Scale))

\* self._tfidf_vectorizer: None, constructed but never fitted, or fitted
Vectorizer(state, fitted_text) == [state |-> state, text |-> fitted_text]
NoVectorizer == Vectorizer("none", "")
\* self._tfidf_job_vec
JobVec(fitted_text) == [present |-> TRUE, text |-> fitted_text]
NoJobVec == [present |-> FALSE, text |-> ""]

\* the last line is a header word followed by a rule of dashes, 52 characters
\* in all
LinePool ==
    {"", "Skills:", "TECHNICAL  SKILLS", "Education", "Qualifications", "Python",
     " - AWS ", "Skills ---------------------------------------------"}

\* _identify_section_header for every line of the pool, computed once
SectionHeaderOf == [line \in LinePool |-> identify_section_header(line)]

Texts == {str_join("\n", ls) : ls \in SeqsUpTo(LinePool, MaxLines)}

(***************************************************************************)
(* parsers/base_parser.py: extract_experience.                             *)
(***************************************************************************)
Digits == {"0", "1", "2", "3", "4", "5", "6", "7", "8", "9"}
Letters ==
    {CharAt(UpperAlphabet, i) : i \in 1..26} \cup {CharAt(LowerAlphabet, i) : i \in 1..26}
UpperLetters == {CharAt(UpperAlphabet, i) : i \in 1..26}

\* the suffix of s from position i on
From(s, i) == SubSeq(s, i, Len(s))

\* the index of the first character of s from position i on that fails a
\* test, Len(s) + 1 if there is none
RECURSIVE SkipWhile(_, _, _)
SkipWhile(s, i, chars) ==
    IF i > Len(s) \/ CharAt(s, i) \notin chars THEN i ELSE SkipWhile(s, i + 1, chars)

\* \bword\b matches at position i of s (word and s in lower case)
WordMatchesAt(s, word, i) ==
    /\ i + Len(word) - 1 <= Len(s)
    /\ SubSeq(s, i, i + Len(word) - 1) = word
    /\ (i = 1 \/ ~IsWordChar(CharAt(s, i - 1)))
    /\ (i + Len(word) - 1 = Len(s) \/ ~IsWordChar(CharAt(s, i + Len(word))))

\* re.search(r'\b(w1|w2|...)\b', s, re.IGNORECASE) for a set of words, a
\* blank inside a word standing for \s+
SearchWords(words, s) ==
    LET t == CollapseWhitespace(str_lower(s))
    IN  \E w \in words : \E i \in 1..Len(t) : WordMatchesAt(t, w, i)

\* self.job_titles, pattern by pattern
job_titles ==
    <<{"ceo", "cfo", "cto", "coo", "cmo", "cio", "vp", "vice president"},
      {"director", "manager", "supervisor", "lead", "head of", "chief"},
      {"coordinator", "administrator", "specialist", "analyst"},
      {"engineer", "developer", "programmer", "architect", "designer"},
      {"scientist", "researcher", "technician"},
      {"consultant", "advisor", "strategist", "executive"},
      {"representative", "associate", "assistant", "officer"},
      {"hr", "human resource", "human resources", "recruiter", "talent"},
      {"sales", "marketing", "business development"},
      {"finance", "accounting", "audit"},
      {"product manager", "product owner", "project manager", "project owner",
       "program manager", "program owner"}>>

\* self.company_indicators, pattern by pattern
company_indicators ==
    <<{"inc", "llc", "corp", "corporation", "company", "ltd", "limited", "group",
       "partners", "llp"},
      {"associates", "solutions", "services", "consulting", "technologies", "systems"},
      {"university", "college", "institute", "school", "academy"},
      {"hospital", "medical", "health", "clinic"},
      {"bank", "financial", "capital", "investments"}>>

\* self.job_titles[:5] and self.company_indicators[:3]
TitlePatternsChecked == 5
IndicatorPatternsChecked == 3

\* re.match(r'^\s*(?:\d{1,2}/\d{4}|\w+\s+\d{4})', line)
StartsWithDate(line) ==
    LET a == SkipWhile(line, 1, {" ", "\t", "\n"})
        FourDigitsAt(i) ==
            /\ i + 3 <= Len(line)
            /\ \A k \in i..(i + 3) : CharAt(line, k) \in Digits
    IN  \/ \E n \in 1..2 :
              /\ a + n <= Len(line)
              /\ \A k \in a..(a + n - 1) : CharAt(line, k) \in Digits
              /\ CharAt(line, a + n) = "/"
              /\ FourDigitsAt(a + n + 1)
        \/ \E e \in a..(SkipWhile(line, a, WordCharSet) - 1) :
              /\ e + 1 <= Len(line)
              /\ IsSpace(CharAt(line, e + 1))
              /\ FourDigitsAt(SkipWhile(line, e + 1, {" ", "\t", "\n"}))

\* is_new_entry for one line
IsNewEntry(line) ==
    \/ StartsWithDate(line)
    \/ \E k \in 1..TitlePatternsChecked : SearchWords(job_titles[k], line)
    \/ \E k \in 1..IndicatorPatternsChecked : SearchWords(company_indicators[k], line)

\* the loop of _split_job_entries with blank lines left out of the entries
RECURSIVE SplitEntries_SkipsBlank(_, _, _)
SplitEntries_SkipsBlank(ls, starts, current_entry) ==
    IF ls = <<>> THEN (IF current_entry # <<>> THEN <<current_entry>> ELSE <<>>)
    ELSE IF str_strip(Head(ls)) = ""
         THEN SplitEntries_SkipsBlank(Tail(ls), starts, current_entry)
    ELSE IF starts[Head(ls)] /\ current_entry # <<>>
         THEN <<current_entry>> \o SplitEntries_SkipsBlank(Tail(ls), starts, <<Head(ls)>>)
    ELSE SplitEntries_SkipsBlank(Tail(ls), starts, Append(current_entry, Head(ls)))

\* the loop of _split_job_entries over the lines ls, with starts the
\* is_new_entry of every line: the entries, each as its list of lines
RECURSIVE SplitEntries(_, _, _)
SplitEntries(ls, starts, current_entry) ==
    IF ls = <<>> THEN (IF current_entry # <<>> THEN <<current_entry>> ELSE <<>>)
    ELSE IF starts[Head(ls)] /\ current_entry # <<>>
         THEN <<current_entry>> \o SplitEntries(Tail(ls), starts, <<Head(ls)>>)
    ELSE SplitEntries(Tail(ls), starts, Append(current_entry, Head(ls)))

Whitespace == {" ", "\t", "\n"}

\* where a match of word ends when it starts at position i of s, a blank in
\* word standing for \s+; 0 if there is no match (the index is that of the
\* character after the match)
RECURSIVE MatchTo(_, _, _)
MatchTo(s, i, word) ==
    IF word = "" THEN i
    ELSE IF i > Len(s) THEN 0
    ELSE IF CharAt(word, 1) = " "
         THEN (IF IsSpace(CharAt(s, i))
               THEN MatchTo(s, SkipWhile(s, i, Whitespace), Tail(word)) ELSE 0)
    ELSE IF CharAt(s, i) = CharAt(word, 1) THEN MatchTo(s, i + 1, Tail(word))
    ELSE 0

\* where \b(w1|w2|...)\b ends when it matches at position i of s, 0 if it
\* does not
PatternEnd(s, words, i) ==
    LET ends == {MatchTo(s, i, w) : w \in words}
        good == {e \in ends : /\ e # 0
                               /\ (i = 1 \/ ~IsWordChar(CharAt(s, i - 1)))
                               /\ (e > Len(s) \/ ~IsWordChar(CharAt(s, e)))}
    IN  IF good = {} THEN 0 ELSE CHOOSE e \in good : \A f \in good : f <= e

\* the first pattern of self.job_titles found in the line, 0 if none is
FirstTitlePattern(line) ==
    LET found == {k \in 1..Len(job_titles) : SearchWords(job_titles[k], line)}
    IN  IF found = {} THEN 0 ELSE CHOOSE k \in found : \A m \in found : k <= m

\* exp.title: re.search(r'([A-Za-z\s]+?' + pattern + r'[A-Za-z\s]*)',
\* first_line, re.IGNORECASE).group(1).strip() for the first pattern found in
\* the line, None if no pattern is found or this search fails
TitleOf(first_line) ==
    LET k == FirstTitlePattern(first_line)
        t == str_lower(first_line)
        class == Letters \cup Whitespace
        \* the start of the run of letters and blanks that ends before p
        RunStart[p \in 1..(Len(t) + 1)] ==
            IF p = 1 \/ CharAt(first_line, p - 1) \notin class THEN p ELSE RunStart[p - 1]
        cands == {p \in 2..Len(t) : /\ PatternEnd(t, job_titles[k], p) # 0
                                    /\ RunStart[p] < p}
    IN  IF k = 0 \/ cands = {} THEN None
        ELSE LET start == CHOOSE a \in {RunStart[p] : p \in cands} :
                              \A b \in {RunStart[p] : p \in cands} : a <= b
                 at == CHOOSE p \in {q \in cands : RunStart[q] = start} :
                           \A q \in cands : RunStart[q] = start => p <= q
                 stop == SkipWhile(first_line, PatternEnd(t, job_titles[k], at), class)
             IN  Str(str_strip(SubSeq(first_line, start, stop - 1)))

\* the end of the group of r'(?:at|@)\s+([A-Z][^\n,]+?)(?:\s*[-]|\s*\n|$)'
\* when the group starts at position g, 0 if the pattern fails there
AtGroupEnd(entry, g) ==
    LET limit == SkipWhile(entry, g + 1, {CharAt(entry, k) : k \in 1..Len(entry)}
                                             \ {"\n", ","}) - 1
        Terminated(e) ==
            LET b == SkipWhile(entry, e + 1, {" ", "\t"})
            IN  \/ e = Len(entry)
                \/ b <= Len(entry) /\ CharAt(entry, b) \in {"-", "\n"}
        ends == {e \in (g + 1)..limit : Terminated(e)}
    IN  IF ends = {} THEN 0 ELSE CHOOSE e \in ends : \A f \in ends : e <= f

\* the company after "at" or "@", None if there is none
AtCompany(entry) ==
    LET GroupStart(i) ==
            LET j == IF CharAt(entry, i) = "@" THEN i + 1
                     ELSE IF i < Len(entry) /\ SubSeq(entry, i, i + 1) = "at" THEN i + 2
                     ELSE 0
                g == IF j = 0 THEN 0 ELSE SkipWhile(entry, j, Whitespace)
            IN  IF /\ j # 0
                   /\ g > j
                   /\ g <= Len(entry)
                   /\ CharAt(entry, g) \in UpperLetters
                   /\ AtGroupEnd(entry, g) # 0
                THEN g ELSE 0
        found == {i \in 1..Len(entry) : GroupStart(i) # 0}
    IN  IF found = {} THEN None
        ELSE LET i == CHOOSE a \in found : \A b \in found : a <= b
             IN  Str(str_strip(SubSeq(entry, GroupStart(i), AtGroupEnd(entry, GroupStart(i)))))

\* re.sub(r'\s*[-]\s*.*$', '', company)
RemoveLocationSuffix(company) ==
    LET dashes == {d \in 1..Len(company) : CharAt(company, d) = "-"}
    IN  IF dashes = {} THEN company
        ELSE rstrip(SubSeq(company, 1, (CHOOSE d \in dashes : \A f \in dashes : d <= f) - 1))

\* the company found by one pattern of self.company_indicators:
\* r'([A-Z][^,\n]*' + indicator + r'[^,\n]*)' with re.IGNORECASE
IndicatorCompany(entry, words) ==
    LET t == str_lower(entry)
        inside == {CharAt(entry, k) : k \in 1..Len(entry)} \ {"\n", ","}
        SegmentEnd(a) == SkipWhile(entry, a, inside) - 1
        found == {a \in 1..Len(entry) :
                    /\ CharAt(entry, a) \in Letters
                    /\ \E q \in (a + 1)..SegmentEnd(a) : PatternEnd(t, words, q) # 0}
    IN  IF found = {} THEN None
        ELSE LET a == CHOOSE x \in found : \A y \in found : x <= y
             IN  Str(RemoveLocationSuffix(str_strip(SubSeq(entry, a, SegmentEnd(a)))))

\* _extract_company
RECURSIVE CompanyByIndicator(_, _)
CompanyByIndicator(entry, k) ==
    IF k > Len(company_indicators)
    THEN (IF \E i \in 1..Len(entry) :
                LET e == MatchTo(str_lower(entry), i, "company name")
                IN  e # 0 /\ (e > Len(entry) \/ ~IsWordChar(CharAt(entry, e)))
          THEN Str("Company Name (Placeholder)") ELSE None)
    ELSE IF IndicatorCompany(entry, company_indicators[k]) # None
         THEN IndicatorCompany(entry, company_indicators[k])
    ELSE CompanyByIndicator(entry, k + 1)

extract_company(entry) ==
    IF AtCompany(entry) # None THEN AtCompany(entry) ELSE CompanyByIndicator(entry, 1)

\* the bullet text of a line, "" if the line is not a bullet: the line has
\* a "-" or "*" marker followed by whitespace
BulletText(line) ==
    LET a == SkipWhile(line, 1, Whitespace)
    IN  IF /\ a + 1 <= Len(line)
           /\ CharAt(line, a) \in {"-", "*"}
           /\ IsSpace(CharAt(line, a + 1))
        THEN str_strip(From(line, a + 1))
        ELSE ""

\* the bullets of lines[1:]
RECURSIVE Bullets(_)
Bullets(ls) ==
    IF ls = <<>> THEN <<>>
    ELSE (IF BulletText(Head(ls)) # "" THEN <<BulletText(Head(ls))>> ELSE <<>>)
         \o Bullets(Tail(ls))

\* _parse_job_entry on an entry given as its lines: the fields of the
\* Experience that extract_experience tests and the description
parse_job_entry(entry_lines) ==
    [title |-> TitleOf(entry_lines[1]),
     company |-> extract_company(str_join("\n", entry_lines)),
     description |-> Bullets(Tail(entry_lines))]

\* the truth of an Optional[str]: neither None nor ''
Truthy(v) == v # None /\ v # Str("")

\* the test of extract_experience, passing every entry
Kept_Every(exp) == TRUE

\* exp.company or exp.title
Kept(exp) == Truthy(exp.company) \/ Truthy(exp.title)

(***************************************************************************)
(* parsers/base_parser.py: _extract_date_range.  A matcher gives the index *)
(* after the match that starts at position i, 0 if there is none.          *)
(***************************************************************************)
\* \d{4}
FourDigitsEnd(s, i) ==
    IF i + 3 <= Len(s) /\ \A k \in i..(i + 3) : CharAt(s, k) \in Digits THEN i + 4 ELSE 0

\* \d{1,2}/\d{4}
SlashDateEnd(s, i) ==
    LET With(n) ==
            IF /\ i + n <= Len(s)
               /\ \A k \in i..(i + n - 1) : CharAt(s, k) \in Digits
               /\ CharAt(s, i + n) = "/"
            THEN FourDigitsEnd(s, i + n + 1) ELSE 0
    IN  IF With(2) # 0 THEN With(2) ELSE With(1)

\* \w+\s+\d{4}
WordDateEnd(s, i) ==
    LET w == SkipWhile(s, i, WordCharSet)
    IN  IF w > i /\ w <= Len(s) /\ IsSpace(CharAt(s, w))
        THEN FourDigitsEnd(s, SkipWhile(s, w, Whitespace)) ELSE 0

MonthPrefixes ==
    {"jan", "feb", "mar", "apr", "may", "jun", "jul", "aug", "sep", "oct", "nov", "dec"}

\* (Jan|Feb|...|Dec)[a-z]*\.?\s+\d{4}, re.IGNORECASE
MonthYearEnd(s, i) ==
    LET a == SkipWhile(s, i + 3, Letters)
        b == IF a <= Len(s) /\ CharAt(s, a) = "." THEN a + 1 ELSE a
    IN  IF /\ i + 2 <= Len(s)
           /\ str_lower(SubSeq(s, i, i + 2)) \in MonthPrefixes
           /\ b <= Len(s)
           /\ IsSpace(CharAt(s, b))
        THEN FourDigitsEnd(s, SkipWhile(s, b, Whitespace)) ELSE 0

\* \b(19|20)\d{2}\b
YearEnd(s, i) ==
    IF /\ i = 1 \/ ~IsWordChar(CharAt(s, i - 1))
       /\ FourDigitsEnd(s, i) # 0
       /\ SubSeq(s, i, i + 1) \in {"19", "20"}
       /\ (i + 4 > Len(s) \/ ~IsWordChar(CharAt(s, i + 4)))
    THEN i + 4 ELSE 0

PresentWords == {"present", "current", "now", "ongoing", "today"}

\* \b(Present|Current|Now|Ongoing|Today)\b, re.IGNORECASE
PresentEnd(s, i) ==
    LET found == {w \in PresentWords : WordMatchesAt(str_lower(s), w, i)}
    IN  IF found = {} THEN 0 ELSE i + Len(CHOOSE w \in found : TRUE)

\* self.date_patterns without 'date_range', in the order of the dict
date_patterns == <<"month_year", "mm_yyyy", "yyyy", "present">>

DateEnd(pattern_name, s, i) ==
    CASE pattern_name = "month_year" -> MonthYearEnd(s, i)
      [] pattern_name = "mm_yyyy" -> SlashDateEnd(s, i)
      [] pattern_name = "yyyy" -> YearEnd(s, i)
      [] pattern_name = "present" -> PresentEnd(s, i)

\* what re.findall gives for the match of s from i to e - 1: the text of
\* the group when the pattern has one, the text of the match otherwise
Found(pattern_name, s, i, e) ==
    CASE pattern_name = "month_year" -> SubSeq(s, i, i + 2)
      [] pattern_name = "mm_yyyy" -> SubSeq(s, i, e - 1)
      [] pattern_name = "yyyy" -> SubSeq(s, i, i + 1)
      [] pattern_name = "present" -> SubSeq(s, i, e - 1)

\* re.findall(pattern, text, re.IGNORECASE), scanning from position i
RECURSIVE FindAll(_, _, _)
FindAll(pattern_name, s, i) ==
    IF i > Len(s) THEN <<>>
    ELSE IF DateEnd(pattern_name, s, i) # 0
         THEN <<Found(pattern_name, s, i, DateEnd(pattern_name, s, i))>>
              \o FindAll(pattern_name, s, DateEnd(pattern_name, s, i))
    ELSE FindAll(pattern_name, s, i + 1)

\* the list dates after the loop over the patterns from the k-th on
RECURSIVE StandaloneDates(_, _)
StandaloneDates(s, k) ==
    IF k > Len(date_patterns) THEN <<>>
    ELSE FindAll(date_patterns[k], s, 1) \o StandaloneDates(s, k + 1)

\* the first group of range_pattern
RangeStartEnd(s, i) == IF WordDateEnd(s, i) # 0 THEN WordDateEnd(s, i) ELSE SlashDateEnd(s, i)

\* \s*(?:-|to)\s* of range_pattern, re.IGNORECASE
SeparatorEnd(s, i) ==
    LET a == SkipWhile(s, i, Whitespace)
    IN  IF a <= Len(s) /\ CharAt(s, a) = "-" THEN SkipWhile(s, a + 1, Whitespace)
        ELSE IF a < Len(s) /\ str_lower(SubSeq(s, a, a + 1)) = "to"
             THEN SkipWhile(s, a + 2, Whitespace)
        ELSE 0

\* the second group of range_pattern
RangeStopEnd(s, i) ==
    IF WordDateEnd(s, i) # 0 THEN WordDateEnd(s, i)
    ELSE IF SlashDateEnd(s, i) # 0 THEN SlashDateEnd(s, i)
    ELSE IF i + 6 <= Len(s) /\ str_lower(SubSeq(s, i, i + 6)) \in {"present", "current"}
         THEN i + 7
    ELSE 0

\* the return values of _extract_date_range
Dates(start_date, end_date) == [start_date |-> start_date, end_date |-> end_date]

\* range_pattern matched at position i: the two groups, None if it fails
RangeAt(s, i) ==
    LET e1 == RangeStartEnd(s, i)
        b == IF e1 = 0 THEN 0 ELSE SeparatorEnd(s, e1)
        e2 == IF b = 0 THEN 0 ELSE RangeStopEnd(s, b)
    IN  IF e2 = 0 THEN None ELSE Dates(SubSeq(s, i, e1 - 1), SubSeq(s, b, e2 - 1))

\* re.search(range_pattern, text, re.IGNORECASE), from position i on
RECURSIVE SearchRange(_, _)
SearchRange(s, i) ==
    IF i > Len(s) THEN None
    ELSE IF RangeAt(s, i) # None THEN RangeAt(s, i)
    ELSE SearchRange(s, i + 1)

\* the pairing of the individual dates
PairOf(dates) ==
    IF Len(dates) >= 2 THEN Dates(dates[1], dates[2])
    ELSE IF Len(dates) = 1 THEN Dates(dates[1], "Present")
    ELSE None

\* _extract_date_range
extract_date_range(text) ==
    IF SearchRange(text, 1) # None THEN SearchRange(text, 1)
    ELSE PairOf(StandaloneDates(text, 1))

(***************************************************************************)
(* parsers/base_parser.py: extract_skills.                                 *)
(***************************************************************************)
\* tech_skills, in the order of the dict
tech_skills ==
    <<[category |-> "languages",
       skills |-> <<"Python", "Java", "JavaScript", "TypeScript", "C++", "C#", "Ruby", "Go",
                    "Rust", "Swift", "Kotlin", "R", "SQL", "PHP", "Perl", "Scala">>],
      [category |-> "frameworks",
       skills |-> <<"React", "Angular", "Vue", "Django", "Flask", "Spring", "Node.js",
                    "Express", ".NET", "Rails", "Laravel">>],
      [category |-> "databases",
       skills |-> <<"MySQL", "PostgreSQL", "MongoDB", "Redis", "Oracle", "SQL Server",
                    "Cassandra", "DynamoDB", "Elasticsearch">>],
      [category |-> "tools",
       skills |-> <<"Git", "Docker", "Kubernetes", "Jenkins", "AWS", "Azure", "GCP",
                    "Terraform", "Ansible", "JIRA", "Confluence">>]>>

\* variant_patterns, in the order of the dict: for every canonical name the
\* texts its patterns match, in lower case; in spaced a blank stands for \s+,
\* in exact every character stands for itself
variant_patterns ==
    <<[canonical |-> "REST", exact |-> {"rest", "restful"}, spaced |-> {}],
      [canonical |-> "GraphQL",
       exact |-> {"graphql", "graph ql", "graph\tql", "graph\nql"}, spaced |-> {}],
      [canonical |-> "NoSQL",
       exact |-> {"nosql", "no sql", "no\tsql", "no\nsql"}, spaced |-> {}],
      [canonical |-> "CI/CD",
       exact |-> {"cicd", "ci-cd", "ci cd"},
       spaced |-> {"ci/cd", "ci /cd", "ci/ cd", "ci / cd"}],
      [canonical |-> "Microservices",
       exact |-> {},
       spaced |-> {"microservice", "microservices", "microservice architecture",
                   "microservices architecture"}]>>

soft_skills ==
    <<"Leadership", "Communication", "Problem Solving", "Team", "Collaboration",
      "Management", "Analytical", "Creative", "Strategic", "Critical Thinking",
      "Project Management", "Time Management", "Presentation">>

\* \b at position i of t: between a word character and a character that is
\* none, the ends of t counting as none
Boundary(t, i) ==
    (i > 1 /\ IsWordChar(CharAt(t, i - 1))) # (i <= Len(t) /\ IsWordChar(CharAt(t, i)))

\* re.search(r'\b' + re.escape(skill) + r'\b', text, re.IGNORECASE), with
\* skill and text in lower case
SearchSkill(skill, t) ==
    \E i \in 1..(Len(t) - Len(skill) + 1) :
        /\ SubSeq(t, i, i + Len(skill) - 1) = skill
        /\ Boundary(t, i)
        /\ Boundary(t, i + Len(skill))

\* re.search of a pattern between \b and \b whose blanks stand for \s+
SearchSpaced(word, t) ==
    \E i \in 1..Len(t) :
        /\ MatchTo(t, i, word) # 0
        /\ Boundary(t, i)
        /\ Boundary(t, MatchTo(t, i, word))

\* the skills of a list found in the text, in the order of the list
RECURSIVE SkillsFound(_, _)
SkillsFound(skill_list, t) ==
    IF skill_list = <<>> THEN <<>>
    ELSE (IF SearchSkill(str_lower(Head(skill_list)), t) THEN <<Head(skill_list)>> ELSE <<>>)
         \o SkillsFound(Tail(skill_list), t)

\* the technical skills of the categories in names found in the text
RECURSIVE TechFound(_, _, _)
TechFound(names, t, k) ==
    IF k > Len(tech_skills) THEN <<>>
    ELSE (IF tech_skills[k].category \in names THEN SkillsFound(tech_skills[k].skills, t)
          ELSE <<>>)
         \o TechFound(names, t, k + 1)

\* the canonical names of the variants found in the text
RECURSIVE CanonicalFound(_, _)
CanonicalFound(t, k) ==
    IF k > Len(variant_patterns) THEN <<>>
    ELSE (IF \/ \E w \in variant_patterns[k].exact : SearchSkill(w, t)
             \/ \E w \in variant_patterns[k].spaced : SearchSpaced(w, t)
          THEN <<variant_patterns[k].canonical>> ELSE <<>>)
         \o CanonicalFound(t, k + 1)

\* skills['all'] before the lists are deduplicated, leaving out the soft skills
AllAppended_TechnicalOnly(technical, soft) == technical

\* skills['all'] before the lists are deduplicated: every skill appended to
\* 'technical' or to 'soft' is appended to 'all' too
AllAppended(technical, soft) == technical \o soft

\* skills[key] = list(set(skills[key]))
Deduplicated(items, seed) == list_of_set(Range(items), seed)

\* extract_skills, given the text in lower case
SkillsIn(t, seed) ==
    LET technical == TechFound({"languages", "frameworks", "databases", "tools"}, t, 1)
                         \o CanonicalFound(t, 1)
        soft == SkillsFound(soft_skills, t)
    IN  [all |-> Deduplicated(AllAppended(technical, soft), seed),
         technical |-> Deduplicated(technical, seed),
         soft |-> Deduplicated(soft, seed),
         languages |-> Deduplicated(TechFound({"languages"}, t, 1), seed),
         tools |-> Deduplicated(TechFound({"tools", "frameworks"}, t, 1), seed),
         databases |-> Deduplicated(TechFound({"databases"}, t, 1), seed)]

\* extract_skills
extract_skills(text, seed) == SkillsIn(str_lower(text), seed)

(***************************************************************************)
(* parsers/base_parser.py: clean_text, detect_sections and the mappings    *)
(* that parse returns.                                                     *)
(***************************************************************************)
\* not text, for the values given to parse
Falsy(v) == v \in {None, NonStr("0"), Str("")}

\* text.replace('\r\n', '\n').replace('\r', '\n')
RECURSIVE NormalizeLineEndings(_)
NormalizeLineEndings(s) ==
    IF s = "" THEN ""
    ELSE IF CharAt(s, 1) = "\r"
         THEN (IF Len(s) > 1 /\ CharAt(s, 2) = "\n" THEN "" ELSE "\n")
              \o NormalizeLineEndings(Tail(s))
    ELSE CharAt(s, 1) \o NormalizeLineEndings(Tail(s))

\* re.sub(r'[ \t]+', ' ', text)
RECURSIVE SqueezeBlanks(_)
SqueezeBlanks(s) ==
    IF s = "" THEN ""
    ELSE IF CharAt(s, 1) \in {" ", "\t"}
         THEN " " \o SqueezeBlanks(From(s, SkipWhile(s, 1, {" ", "\t"})))
    ELSE CharAt(s, 1) \o SqueezeBlanks(Tail(s))

\* re.sub(r'\n{3,}', '\n\n', text)
RECURSIVE SqueezeNewlines(_)
SqueezeNewlines(s) ==
    IF s = "" THEN ""
    ELSE IF CharAt(s, 1) = "\n"
         THEN (IF SkipWhile(s, 1, {"\n"}) > 3 THEN "\n\n"
               ELSE SubSeq(s, 1, SkipWhile(s, 1, {"\n"}) - 1))
              \o SqueezeNewlines(From(s, SkipWhile(s, 1, {"\n"})))
    ELSE CharAt(s, 1) \o SqueezeNewlines(Tail(s))

\* clean_text of a string (the pool holds none of the bullet characters that
\* the second substitution rewrites)
CleanString(s) ==
    LET ls == split_lines(SqueezeNewlines(SqueezeBlanks(NormalizeLineEndings(s))))
    IN  str_join("\n", [i \in 1..Len(ls) |-> str_strip(ls[i])])

\* clean_text raises: a value that is true and has no replace taking strings
CleanTextRaises(v) == ~Falsy(v) /\ ~isinstance_str(v)

\* clean_text, where it returns
clean_text(v) == IF Falsy(v) THEN "" ELSE CleanString(v.val)

\* "Save previous section" / "Save last section" of detect_sections
SavedSections(mapping_so_far, kind, content_lines) ==
    IF content_lines # <<>> /\ ContentOf(content_lines) # ""
    THEN SaveSection(mapping_so_far, kind, ContentOf(content_lines))
    ELSE mapping_so_far

\* the loop of detect_sections over the lines ls, and the statements after it
RECURSIVE DetectLoop(_, _, _, _)
DetectLoop(ls, kind, content_lines, mapping_so_far) ==
    IF ls = <<>> THEN SavedSections(mapping_so_far, kind, content_lines)
    ELSE IF IsBlank(Head(ls))
         THEN DetectLoop(Tail(ls), kind,
                         IF content_lines # <<>> THEN Append(content_lines, "")
                         ELSE content_lines,
                         mapping_so_far)
    ELSE IF identify_section_header(Head(ls)) # NoSection
         THEN DetectLoop(Tail(ls), identify_section_header(Head(ls)), <<>>,
                         SavedSections(mapping_so_far, kind, content_lines))
    ELSE DetectLoop(Tail(ls), kind, AppendLine(content_lines, Head(ls)), mapping_so_far)

\* detect_sections
detect_sections(text) == DetectLoop(split_lines(text), HEADER, <<>>, <<>>)

\* the slice [:500] of the summary
SummaryLimit == 500

\* the classes that "except Exception" catches, among those a statement of
\* the try block can raise
ExceptionClasses == {"AttributeError", "TypeError", "IndexError", "ValueError", "KeyError"}

\* except Exception, catching one class only
Caught_OnlyValueError(fault) == fault.kind = "ValueError"

\* except Exception as e
Caught(fault) == fault.kind \in ExceptionClasses

\* the mapping built on the success path
SuccessResult(sections_found, contact, skills, experience, education) ==
    [contact |-> contact,
     summary |-> IF "summary" \in DOMAIN sections_found
                 THEN Str(SubSeq(sections_found["summary"], 1,
                                 Min(SummaryLimit, Len(sections_found["summary"]))))
                 ELSE None,
     skills |-> skills,
     experience |-> experience,
     education |-> education,
     sections |-> sections_found,
     metadata |-> [sections_detected |-> DOMAIN sections_found, parsing_success |-> TRUE]]

\* the mapping returned by the except clause
FailureResult(fault) ==
    [error |-> fault.message,
     contact |-> <<>>,
     skills |-> [all |-> <<>>],
     experience |-> <<>>,
     education |-> <<>>,
     metadata |-> [parsing_success |-> FALSE]]

(***************************************************************************)
(* The components at rest.                                                 *)
(***************************************************************************)
NoRecord == [none |-> TRUE]
NoBreakdown ==
    [skills_score |-> 0, education_score |-> 0, experience_score |-> 0,
     projects_score |-> 0, company_score |-> 0]


ScorerIdle ==
    /\ resume = NoRecord
    /\ job = NoRecord
    /\ resume_skills = {}
    /\ required_skills = {}
    /\ must_have = {}
    /\ total = 0
    /\ breakdown = NoBreakdown
    /\ matched_required = <<>>
    /\ missing_required = <<>>
    /\ sc_heap = <<>>
    /\ sc_held = <<>>
    /\ sc_pc = "idle"

NormalizerIdle ==
    /\ raw_skills = <<>>
    /\ normalized = {}
    /\ renormalized = {}
    /\ nz_pc = "idle"

ClassifierIdle ==
    /\ suitable_threshold = 0
    /\ maybe_threshold = 0
    /\ cl_score = 0
    /\ cl_label = ""
    /\ cl_prev_score = 0
    /\ cl_prev_label = ""
    /\ cl_pc = "idle"

MatcherIdle ==
    /\ model = 0
    /\ job_embedding = NoEmbedding
    /\ tfidf_vectorizer = NoVectorizer
    /\ tfidf_job_vec = NoJobVec
    /\ sm_op = "none"
    /\ sm_job = NoRecord
    /\ sm_resume = NoRecord
    /\ sm_status = "idle"
    /\ sm_result = NoValue
    /\ semantic = NoValue
    /\ skill_coverage = NoValue
    /\ composites = {}

SegmenterIdle ==
    /\ sg_text = ""
    /\ lines = <<>>
    /\ sg_i = 0
    /\ current_section = NoSection
    /\ current_content = <<>>
    /\ sections = <<>>
    /\ saved = <<>>
    /\ sg_pc = "idle"

SkillsIdle ==
    /\ sk_text = ""
    /\ sk_skills = NoRecord
    /\ sk_pc = "idle"

DatesIdle ==
    /\ dr_text = ""
    /\ dr_dates = None
    /\ dr_pc = "idle"

ParserIdle ==
    /\ pr_input = NoRecord
    /\ pr_text = ""
    /\ pr_sections = <<>>
    /\ pr_contact = NoRecord
    /\ pr_skills = NoRecord
    /\ pr_experience = <<>>
    /\ pr_education = <<>>
    /\ pr_fault = NoRecord
    /\ pr_result = NoRecord
    /\ pr_pc = "idle"

ExperienceIdle ==
    /\ ex_blocks = <<>>
    /\ ex_text = ""
    /\ job_entries = <<>>
    /\ experiences = <<>>
    /\ ex_pc = "idle"

ThreadsIdle ==
    /\ th_job = NoRecord
    /\ th_resume = <<>>
    /\ th_job_embedding = NoEmbedding
    /\ th_vectorizers = <<>>
    /\ th_tfidf_vectorizer = 0
    /\ th_tfidf_job_vec = NoJobVec
    /\ th_fitting = <<>>
    /\ th_bert_sim = <<>>
    /\ th_resume_vec = <<>>
    /\ th_result = <<>>
    /\ th_pc = <<>>

(***************************************************************************)
(* RuleBasedScorer.score: one call on one resume and one job.              *)
(***************************************************************************)
ScorerInit ==
    /\ resume \in Resumes
    /\ job \in Jobs
    /\ resume_skills = {}
    /\ required_skills = {}
    /\ must_have = {}
    /\ total = 0
    /\ breakdown = NoBreakdown
    /\ matched_required = <<>>
    /\ missing_required = <<>>
    /\ sc_heap = <<>>
    /\ sc_held = <<>>
    /\ sc_pc = "call"
    /\ NormalizerIdle
    /\ ClassifierIdle
    /\ MatcherIdle
    /\ SegmenterIdle
    /\ ThreadsIdle
    /\ ExperienceIdle
    /\ ParserIdle
    /\ DatesIdle
    /\ SkillsIdle

\* a dict display with every call sharing the one dict object
NewDict_Shared(heap) == 1

\* breakdown = {...}: a dict display creates an object of a new identity
NewDict(heap) == Len(heap) + 1

\* the heap with the dict of identity id holding value
Store(heap, id, value) ==
    [i \in 1..Max(Len(heap), id) |-> IF i = id THEN value ELSE heap[i]]

\* the return of score: the result with its two sets turned into lists
Returns(result) ==
    \E seed \in 0..MaxHashSeed :
        /\ sc_heap' = Store(sc_heap, NewDict(sc_heap), result.breakdown)
        /\ sc_held' = Append(sc_held, NewDict(sc_heap))
        /\ resume_skills' = result.resume_skills
        /\ required_skills' = result.required_skills
        /\ must_have' = result.must_have
        /\ total' = result.total
        /\ breakdown' = result.breakdown
        /\ matched_required' = list_of_set(result.matched, seed)
        /\ missing_required' = list_of_set(result.missing, seed)

\* score(resume, job) returns (min(score, 100), breakdown, list(matched_required),
\* list(required_skills - matched_required))
Score ==
    /\ sc_pc = "call"
    /\ ~ScoreRaises(resume, job)
    /\ Returns(ScoreResult(resume, job))
    /\ sc_pc' = "returned"
    /\ UNCHANGED <<resume, job>>
    /\ UNCHANGED <<nz_vars, cl_vars, sm_vars, sg_vars, th_vars, ex_vars, pr_vars, dr_vars, sk_vars>>

\* score(resume, job) ends in an exception
ScoreFails ==
    /\ sc_pc = "call"
    /\ ScoreRaises(resume, job)
    /\ sc_pc' = "raised"
    /\ UNCHANGED <<resume, job, resume_skills, required_skills, must_have, total,
                   breakdown, matched_required, missing_required, sc_heap, sc_held>>
    /\ UNCHANGED <<nz_vars, cl_vars, sm_vars, sg_vars, th_vars, ex_vars, pr_vars, dr_vars, sk_vars>>

ScorerNext == Score \/ ScoreFails

SpecScorer == ScorerInit /\ [][ScorerNext]_vars

(***************************************************************************)
(* score on resumes of mixed shapes: skills and technical_skills as a      *)
(* category mapping, a flat list, absent (the default {} of dict.get) or   *)
(* None; every entry of education, experience and projects a mapping, a    *)
(* string or a value of another type; lists with elements that are not     *)
(* strings.                                                                *)
(***************************************************************************)
SkillShapes ==
    {SkillDict(<<PyList(<<Str("Python"), NonStr("7")>>), NotAList>>),
     SkillList(<<Str("REST API Development"), NonStr("3")>>),
     SkillDict(<<>>),
     SkillOther}

EducationShapes == EducationPool \cup {EduOther}
ExperienceShapes == ExperiencePool \cup {ExpOther}
ProjectShapes == ProjectsPool \cup {ProjDict(<<Str("Python"), NonStr("7")>>), ProjOther}

ShapeResumes ==
    {r \in [skills : SkillShapes,
            technical_skills : {SkillDict(<<>>), SkillDict(<<PyList(<<Str("AWS")>>)>>)},
            education : SeqsUpTo(EducationShapes, MaxShapeEntries),
            experience : SeqsUpTo(ExperienceShapes, MaxShapeEntries),
            projects : SeqsUpTo(ProjectShapes, MaxShapeEntries),
            work_experience : {<<>>}] :
        Len(r.education) + Len(r.experience) + Len(r.projects) <= MaxShapeEntries}

ScorerShapesInit ==
    /\ resume \in ShapeResumes
    /\ job \in Jobs
    /\ resume_skills = {}
    /\ required_skills = {}
    /\ must_have = {}
    /\ total = 0
    /\ breakdown = NoBreakdown
    /\ matched_required = <<>>
    /\ missing_required = <<>>
    /\ sc_heap = <<>>
    /\ sc_held = <<>>
    /\ sc_pc = "call"
    /\ NormalizerIdle
    /\ ClassifierIdle
    /\ MatcherIdle
    /\ SegmenterIdle
    /\ ThreadsIdle
    /\ ExperienceIdle
    /\ ParserIdle
    /\ DatesIdle
    /\ SkillsIdle

SpecScorerShapes == ScorerShapesInit /\ [][ScorerNext]_vars

(***************************************************************************)
(* A caller that calls score MaxCalls times, one call after the other, and *)
(* keeps the breakdown of every call.  Its resumes have at most one skill  *)
(* and one education entry.                                                *)
(***************************************************************************)
CallResumes ==
    {[skills |-> SkillList(l), technical_skills |-> SkillOther, education |-> e,
      experience |-> <<>>, projects |-> <<>>, work_experience |-> <<>>] :
        l \in {k \in ResumeSkillLists : Len(k) <= 1}, e \in SeqsUpTo(EducationPool, 1)}

ScorerCallsInit ==
    /\ resume \in CallResumes
    /\ ScorerInit

\* the caller makes its next call, on any resume and job
NextCall ==
    /\ sc_pc \in {"returned", "raised"}
    /\ Len(sc_held) < MaxCalls
    /\ resume' \in CallResumes
    /\ job' \in Jobs
    /\ resume_skills' = {}
    /\ required_skills' = {}
    /\ must_have' = {}
    /\ total' = 0
    /\ breakdown' = NoBreakdown
    /\ matched_required' = <<>>
    /\ missing_required' = <<>>
    /\ sc_pc' = "call"
    /\ UNCHANGED <<sc_heap, sc_held>>
    /\ UNCHANGED <<nz_vars, cl_vars, sm_vars, sg_vars, th_vars, ex_vars, pr_vars, dr_vars, sk_vars>>

ScorerCallsNext == Score \/ ScoreFails \/ NextCall

SpecScorerCalls == ScorerCallsInit /\ [][ScorerCallsNext]_vars

(***************************************************************************)
(* The normalizer on its own: one list normalized, then normalized again.  *)
(***************************************************************************)
RawItemPool ==
    {Str("Python (expert)"), Str("CI/CD  Pipelines"), Str("REST-API"), Str("AWS"),
     Str("(expert)"), Str("-"), Str("  "), Str(" GraphQL "), NonStr("42")}

NormalizerInit ==
    /\ raw_skills \in SeqsUpTo(RawItemPool, MaxRaw)
    /\ normalized = {}
    /\ renormalized = {}
    /\ nz_pc = "input"
    /\ ScorerIdle
    /\ ClassifierIdle
    /\ MatcherIdle
    /\ SegmenterIdle
    /\ ThreadsIdle
    /\ ExperienceIdle
    /\ ParserIdle
    /\ DatesIdle
    /\ SkillsIdle

\* normalized = normalize_skill_set(raw_skills)
Normalize ==
    /\ nz_pc = "input"
    /\ normalized' = normalize_skill_set(Range(raw_skills))
    /\ nz_pc' = "once"
    /\ UNCHANGED <<raw_skills, renormalized>>
    /\ UNCHANGED <<sc_vars, cl_vars, sm_vars, sg_vars, th_vars, ex_vars, pr_vars, dr_vars, sk_vars>>

\* renormalized = normalize_skill_set(normalized)
Renormalize ==
    /\ nz_pc = "once"
    /\ renormalized' = normalize_skill_set({Str(s) : s \in normalized})
    /\ nz_pc' = "twice"
    /\ UNCHANGED <<raw_skills, normalized>>
    /\ UNCHANGED <<sc_vars, cl_vars, sm_vars, sg_vars, th_vars, ex_vars, pr_vars, dr_vars, sk_vars>>

NormalizerNext == Normalize \/ Renormalize

SpecNormalizer == NormalizerInit /\ [][NormalizerNext]_vars

(***************************************************************************)
(* ResumeScorer: one classifier, classify called any number of times.      *)
(***************************************************************************)
Units == 0..MaxUnits
Scores == (0 - 1)..(MaxUnits + 1)

\* __init__(suitable_threshold, maybe_threshold)
ClassifierInit ==
    /\ suitable_threshold \in Units
    /\ maybe_threshold \in Units
    /\ cl_score = 0
    /\ cl_label = ""
    /\ cl_prev_score = 0
    /\ cl_prev_label = ""
    /\ cl_pc = "ready"
    /\ NormalizerIdle
    /\ ScorerIdle
    /\ MatcherIdle
    /\ SegmenterIdle
    /\ ThreadsIdle
    /\ ExperienceIdle
    /\ ParserIdle
    /\ DatesIdle
    /\ SkillsIdle

\* classify(score)
Classify ==
    \E score \in Scores :
        /\ cl_pc # "idle"
        /\ cl_score' = score
        /\ cl_label' = classify(suitable_threshold, maybe_threshold, score)
        /\ cl_prev_score' = cl_score
        /\ cl_prev_label' = cl_label
        /\ cl_pc' = "returned"
        /\ UNCHANGED <<suitable_threshold, maybe_threshold>>
        /\ UNCHANGED <<nz_vars, sc_vars, sm_vars, sg_vars, th_vars, ex_vars, pr_vars, dr_vars, sk_vars>>

ClassifierNext == Classify

SpecClassifier == ClassifierInit /\ [][ClassifierNext]_vars

(***************************************************************************)
(* SemanticMatcher: one matcher, its three methods called in any order.    *)
(***************************************************************************)
\* __init__
MatcherInit ==
    /\ model \in 0..MaxModel
    /\ job_embedding = NoEmbedding
    /\ tfidf_vectorizer = NoVectorizer
    /\ tfidf_job_vec = NoJobVec
    /\ sm_op = "none"
    /\ sm_job = NoRecord
    /\ sm_resume = NoRecord
    /\ sm_status = "ready"
    /\ sm_result = NoValue
    /\ semantic = NoValue
    /\ skill_coverage = NoValue
    /\ composites = {}
    /\ NormalizerIdle
    /\ ScorerIdle
    /\ ClassifierIdle
    /\ SegmenterIdle
    /\ ThreadsIdle
    /\ ExperienceIdle
    /\ ParserIdle
    /\ DatesIdle
    /\ SkillsIdle

\* compute_similarity(j, .) ends in an exception: in _build_job_text, in
\* fit_transform, or in transform on a vectorizer that was never fitted
SimilarityRaises(j) ==
    IF JoinRaises(j) THEN TRUE
    ELSE IF tfidf_vectorizer = NoVectorizer THEN TermsOf[TextOfJob[j]] = <<>>
    ELSE tfidf_job_vec = NoJobVec

\* SimilarityCaches without the two "is None" tests: every call encodes the
\* job text and fits a vectorizer
SimilarityCaches_EveryCall(j) ==
    IF JoinRaises(j)
    THEN UNCHANGED <<job_embedding, tfidf_vectorizer, tfidf_job_vec>>
    ELSE /\ job_embedding' = encode(model, TextOfJob[j])
         /\ IF TermsOf[TextOfJob[j]] = <<>>
            THEN /\ tfidf_vectorizer' = Vectorizer("unfitted", "")
                 /\ UNCHANGED tfidf_job_vec
            ELSE /\ tfidf_vectorizer' = Vectorizer("fitted", TextOfJob[j])
                 /\ tfidf_job_vec' = JobVec(TextOfJob[j])

\* SimilarityCaches without the "is None" test of the vectorizer: every call
\* fits a vectorizer on its own job text
SimilarityCaches_RefitsVectorizer(j) ==
    IF JoinRaises(j)
    THEN UNCHANGED <<job_embedding, tfidf_vectorizer, tfidf_job_vec>>
    ELSE /\ job_embedding' =
              IF job_embedding = NoEmbedding THEN encode(model, TextOfJob[j])
              ELSE job_embedding
         /\ IF TermsOf[TextOfJob[j]] = <<>>
            THEN /\ tfidf_vectorizer' = Vectorizer("unfitted", "")
                 /\ UNCHANGED tfidf_job_vec
            ELSE /\ tfidf_vectorizer' = Vectorizer("fitted", TextOfJob[j])
                 /\ tfidf_job_vec' = JobVec(TextOfJob[j])

\* what compute_similarity(j, .) leaves in the three cached fields, whether
\* it returns or raises
SimilarityCaches(j) ==
    IF JoinRaises(j)
    THEN UNCHANGED <<job_embedding, tfidf_vectorizer, tfidf_job_vec>>
    ELSE /\ job_embedding' =
              IF job_embedding = NoEmbedding THEN encode(model, TextOfJob[j])
              ELSE job_embedding
         /\ IF tfidf_vectorizer # NoVectorizer
            THEN UNCHANGED <<tfidf_vectorizer, tfidf_job_vec>>
            ELSE IF TermsOf[TextOfJob[j]] = <<>>
                 THEN /\ tfidf_vectorizer' = Vectorizer("unfitted", "")
                      /\ UNCHANGED tfidf_job_vec
                 ELSE /\ tfidf_vectorizer' = Vectorizer("fitted", TextOfJob[j])
                      /\ tfidf_job_vec' = JobVec(TextOfJob[j])

\* the call that is recorded as the latest one
Called(op, j, r, status) ==
    /\ sm_status # "idle"
    /\ sm_op' = op
    /\ sm_job' = j
    /\ sm_resume' = r
    /\ sm_status' = status
    /\ UNCHANGED model
    /\ UNCHANGED <<nz_vars, sc_vars, cl_vars, sg_vars, th_vars, ex_vars, pr_vars, dr_vars, sk_vars>>

\* compute_similarity(j, r) returns
ComputeSimilarity ==
    \E j \in MatcherJobs, r \in MatcherResumes :
        /\ ~SimilarityRaises(j)
        /\ SimilarityCaches(j)
        /\ sm_result' = SimilarityOf(model, job_embedding', tfidf_job_vec'.text,
                                     TextOfResume[r])
        /\ semantic' = NoValue
        /\ skill_coverage' = NoValue
        /\ UNCHANGED composites
        /\ Called("compute_similarity", j, r, "returned")

\* compute_similarity(j, r) raises
ComputeSimilarityFails ==
    \E j \in MatcherJobs, r \in MatcherResumes :
        /\ SimilarityRaises(j)
        /\ SimilarityCaches(j)
        /\ sm_result' = NoValue
        /\ semantic' = NoValue
        /\ skill_coverage' = NoValue
        /\ UNCHANGED composites
        /\ Called("compute_similarity", j, r, "raised")

\* compute_skill_coverage(j, r) returns
ComputeSkillCoverage ==
    \E j \in MatcherJobs, r \in MatcherResumes :
        /\ ~LowerRaises(j)
        /\ sm_result' = CoverageTable[j, r]
        /\ semantic' = NoValue
        /\ skill_coverage' = NoValue
        /\ UNCHANGED <<job_embedding, tfidf_vectorizer, tfidf_job_vec, composites>>
        /\ Called("compute_skill_coverage", j, r, "returned")

\* compute_skill_coverage(j, r) raises
ComputeSkillCoverageFails ==
    \E j \in MatcherJobs, r \in MatcherResumes :
        /\ LowerRaises(j)
        /\ sm_result' = NoValue
        /\ semantic' = NoValue
        /\ skill_coverage' = NoValue
        /\ UNCHANGED <<job_embedding, tfidf_vectorizer, tfidf_job_vec, composites>>
        /\ Called("compute_skill_coverage", j, r, "raised")

\* compute_composite_score(j, r) returns
ComputeCompositeScore ==
    \E j \in MatcherJobs, r \in MatcherResumes :
        /\ Cardinality(composites) < MaxSeen
        /\ ~SimilarityRaises(j)
        /\ SimilarityCaches(j)
        /\ semantic' = SimilarityOf(model, job_embedding', tfidf_job_vec'.text,
                                    TextOfResume[r])
        /\ skill_coverage' = CoverageTable[j, r]
        /\ sm_result' = CompositeOf(semantic', skill_coverage')
        /\ composites' = composites \cup {[semantic |-> semantic',
                                           skill_coverage |-> skill_coverage',
                                           score |-> sm_result']}
        /\ Called("compute_composite_score", j, r, "returned")

\* compute_composite_score(j, r) raises, in its compute_similarity call
ComputeCompositeScoreFails ==
    \E j \in MatcherJobs, r \in MatcherResumes :
        /\ SimilarityRaises(j)
        /\ SimilarityCaches(j)
        /\ sm_result' = NoValue
        /\ semantic' = NoValue
        /\ skill_coverage' = NoValue
        /\ UNCHANGED composites
        /\ Called("compute_composite_score", j, r, "raised")

MatcherNext ==
    \/ ComputeSimilarity
    \/ ComputeSimilarityFails
    \/ ComputeSkillCoverage
    \/ ComputeSkillCoverageFails
    \/ ComputeCompositeScore
    \/ ComputeCompositeScoreFails

SpecMatcher == MatcherInit /\ [][MatcherNext]_vars

(***************************************************************************)
(* compute_similarity called by MaxThreads threads on one matcher whose    *)
(* three cached fields are still None, all for the same job.  A thread can *)
(* be preempted between any two reads or writes of a field of the matcher; *)
(* the code takes no lock.  A step below holds one such read or write.     *)
(***************************************************************************)
Threads == 1..MaxThreads

\* the jobs for which a call on a new matcher returns
ThreadJobs ==
    {j \in MatcherJobs : IF JoinRaises(j) THEN FALSE ELSE TermsOf[TextOfJob[j]] # <<>>}

ThreadsInit ==
    /\ th_job \in ThreadJobs
    /\ th_resume \in [Threads -> MatcherResumes]
    /\ th_job_embedding = NoEmbedding
    /\ th_vectorizers = <<>>
    /\ th_tfidf_vectorizer = 0
    /\ th_tfidf_job_vec = NoJobVec
    /\ th_fitting = [t \in Threads |-> 0]
    /\ th_bert_sim = [t \in Threads |-> 0]
    /\ th_resume_vec = [t \in Threads |-> ""]
    /\ th_result = [t \in Threads |-> NoValue]
    /\ th_pc = [t \in Threads |-> "test_embedding"]
    /\ NormalizerIdle
    /\ ScorerIdle
    /\ ClassifierIdle
    /\ MatcherIdle
    /\ SegmenterIdle
    /\ ExperienceIdle
    /\ ParserIdle
    /\ DatesIdle
    /\ SkillsIdle

\* thread t goes from statement "from" to statement "to"
Goes(t, from, to) ==
    /\ th_pc[t] = from
    /\ th_pc' = [th_pc EXCEPT ![t] = to]
    /\ UNCHANGED <<th_job, th_resume>>
    /\ UNCHANGED <<nz_vars, sc_vars, cl_vars, sm_vars, sg_vars, ex_vars, pr_vars, dr_vars, sk_vars>>

\* if self._job_embedding is None:
TestEmbedding(t) ==
    /\ Goes(t, "test_embedding",
            IF th_job_embedding = NoEmbedding THEN "encode_job" ELSE "encode_resume")
    /\ UNCHANGED <<th_job_embedding, th_vectorizers, th_tfidf_vectorizer, th_tfidf_job_vec,
                   th_fitting, th_bert_sim, th_resume_vec, th_result>>

\* self._job_embedding = self.model.encode([job_text], ...)[0]
EncodeJob(t) ==
    /\ Goes(t, "encode_job", "encode_resume")
    /\ th_job_embedding' = encode(model, TextOfJob[th_job])
    /\ UNCHANGED <<th_vectorizers, th_tfidf_vectorizer, th_tfidf_job_vec, th_fitting,
                   th_bert_sim, th_resume_vec, th_result>>

\* bert_sim = float(util.cos_sim(self._job_embedding, resume_embedding).item())
BertSim(t) ==
    /\ Goes(t, "encode_resume", "test_vectorizer")
    /\ th_bert_sim' =
          [th_bert_sim EXCEPT
              ![t] = cos_sim(th_job_embedding, encode(model, TextOfResume[th_resume[t]]),
                             Scale)]
    /\ UNCHANGED <<th_job_embedding, th_vectorizers, th_tfidf_vectorizer, th_tfidf_job_vec,
                   th_fitting, th_resume_vec, th_result>>

\* if self._tfidf_vectorizer is None:
TestVectorizer(t) ==
    /\ Goes(t, "test_vectorizer",
            IF th_tfidf_vectorizer = 0 THEN "new_vectorizer" ELSE "transform")
    /\ UNCHANGED <<th_job_embedding, th_vectorizers, th_tfidf_vectorizer, th_tfidf_job_vec,
                   th_fitting, th_bert_sim, th_resume_vec, th_result>>

\* self._tfidf_vectorizer = TfidfVectorizer(...): a new object, not fitted
NewVectorizer(t) ==
    /\ Goes(t, "new_vectorizer", "read_vectorizer")
    /\ th_vectorizers' = Append(th_vectorizers, Vectorizer("unfitted", ""))
    /\ th_tfidf_vectorizer' = Len(th_vectorizers) + 1
    /\ UNCHANGED <<th_job_embedding, th_tfidf_job_vec, th_fitting, th_bert_sim,
                   th_resume_vec, th_result>>

\* self._tfidf_vectorizer.fit_transform: the attribute is read
ReadVectorizer(t) ==
    /\ Goes(t, "read_vectorizer", "fit_transform")
    /\ th_fitting' = [th_fitting EXCEPT ![t] = th_tfidf_vectorizer]
    /\ UNCHANGED <<th_job_embedding, th_vectorizers, th_tfidf_vectorizer, th_tfidf_job_vec,
                   th_bert_sim, th_resume_vec, th_result>>

\* .fit_transform([job_text]) fits the object that was read
FitTransform(t) ==
    /\ Goes(t, "fit_transform", "store_job_vec")
    /\ th_vectorizers' =
          [th_vectorizers EXCEPT ![th_fitting[t]] = Vectorizer("fitted", TextOfJob[th_job])]
    /\ UNCHANGED <<th_job_embedding, th_tfidf_vectorizer, th_tfidf_job_vec, th_fitting,
                   th_bert_sim, th_resume_vec, th_result>>

\* self._tfidf_job_vec = ...
StoreJobVec(t) ==
    /\ Goes(t, "store_job_vec", "transform")
    /\ th_tfidf_job_vec' = JobVec(TextOfJob[th_job])
    /\ UNCHANGED <<th_job_embedding, th_vectorizers, th_tfidf_vectorizer, th_fitting,
                   th_bert_sim, th_resume_vec, th_result>>

\* resume_vec = self._tfidf_vectorizer.transform([resume_text]) on a fitted
\* vectorizer
Transform(t) ==
    /\ th_pc[t] = "transform"
    /\ th_vectorizers[th_tfidf_vectorizer].state = "fitted"
    /\ Goes(t, "transform", "cosine_similarity")
    /\ th_resume_vec' =
          [th_resume_vec EXCEPT ![t] = th_vectorizers[th_tfidf_vectorizer].text]
    /\ UNCHANGED <<th_job_embedding, th_vectorizers, th_tfidf_vectorizer, th_tfidf_job_vec,
                   th_fitting, th_bert_sim, th_result>>

\* the same statement on a vectorizer that is not fitted: NotFittedError
TransformFails(t) ==
    /\ th_pc[t] = "transform"
    /\ th_vectorizers[th_tfidf_vectorizer].state # "fitted"
    /\ Goes(t, "transform", "raised")
    /\ UNCHANGED <<th_job_embedding, th_vectorizers, th_tfidf_vectorizer, th_tfidf_job_vec,
                   th_fitting, th_bert_sim, th_resume_vec, th_result>>

\* tfidf_sim = float(cosine_similarity(self._tfidf_job_vec, resume_vec)...),
\* the blend and the return
CosineSimilarity(t) ==
    /\ th_tfidf_job_vec # NoJobVec
    /\ Goes(t, "cosine_similarity", "returned")
    /\ th_result' =
          [th_result EXCEPT
              ![t] = Blend(Rat(th_bert_sim[t], Scale),
                           Rat(TfidfTable[th_tfidf_job_vec.text,
                                          TextOfResume[th_resume[t]]], Scale))]
    /\ UNCHANGED <<th_job_embedding, th_vectorizers, th_tfidf_vectorizer, th_tfidf_job_vec,
                   th_fitting, th_bert_sim, th_resume_vec>>

\* the same statement while self._tfidf_job_vec is None: cosine_similarity
\* rejects None
CosineSimilarityFails(t) ==
    /\ th_tfidf_job_vec = NoJobVec
    /\ Goes(t, "cosine_similarity", "raised")
    /\ UNCHANGED <<th_job_embedding, th_vectorizers, th_tfidf_vectorizer, th_tfidf_job_vec,
                   th_fitting, th_bert_sim, th_resume_vec, th_result>>

ThreadsNext ==
    \E t \in Threads :
        \/ TestEmbedding(t)
        \/ EncodeJob(t)
        \/ BertSim(t)
        \/ TestVectorizer(t)
        \/ NewVectorizer(t)
        \/ ReadVectorizer(t)
        \/ FitTransform(t)
        \/ StoreJobVec(t)
        \/ Transform(t)
        \/ TransformFails(t)
        \/ CosineSimilarity(t)
        \/ CosineSimilarityFails(t)

SpecThreads == ThreadsInit /\ [][ThreadsNext]_vars

(***************************************************************************)
(* extract_experience on an experience section made of two job blocks,     *)
(* each a date line, a title/company line and bullet lines.                *)
(***************************************************************************)
DateLines == <<"January 2020 - March 2022", "April 2018 - December 2019">>
TitleLines ==
    {"Software Engineer, Acme Corp", "Data Analyst at Initech", "Barista, Joe's Coffee"}
BulletLines == {"- Built APIs", "* Cut costs", "- Mentored the Lead Developer"}

\* the bullet lists of a block: one to MaxBullets bullet lines
BulletLists == SeqsUpTo(BulletLines, MaxBullets) \ {<<>>}

Block(date, title, bullets) == [date |-> date, title |-> title, bullets |-> bullets]
BlockLines(b) == <<b.date, b.title>> \o b.bullets

BlockPairs ==
    {<<Block(DateLines[1], t1, b1), Block(DateLines[2], t2, b2)>> :
        t1 \in TitleLines, t2 \in TitleLines, b1 \in BulletLists, b2 \in BulletLists}

\* the lines of the texts _split_job_entries is called with on its own:
\* blank lines, an indented date, lines that start no entry
MaxSplitLines == 3
SplitLines ==
    {"", "January 2020 - March 2022", "Data Analyst at Initech", "- Built APIs",
     "  03/2019", "Notes "}
SplitTexts == {str_join("\n", ls) : ls \in SeqsUpTo(SplitLines, MaxSplitLines)}

\* is_new_entry of every line of the pools, computed once
StartsEntry ==
    [line \in Range(DateLines) \cup TitleLines \cup BulletLines \cup SplitLines |->
        IsNewEntry(line)]

\* the lines of the section that a pair of blocks makes
SectionLines(blocks) == BlockLines(blocks[1]) \o BlockLines(blocks[2])

\* _parse_job_entry of every entry that the sections split into, computed once
ParsedEntry ==
    [entry \in UNION {Range(SplitEntries(SectionLines(blocks), StartsEntry, <<>>)) :
                          blocks \in BlockPairs} |-> parse_job_entry(entry)]

ExperienceInit ==
    /\ ex_blocks \in BlockPairs
    /\ ex_text = str_join("\n", SectionLines(ex_blocks))
    /\ job_entries = <<>>
    /\ experiences = <<>>
    /\ ex_pc = "call"
    /\ NormalizerIdle
    /\ ScorerIdle
    /\ ClassifierIdle
    /\ MatcherIdle
    /\ SegmenterIdle
    /\ ThreadsIdle
    /\ ParserIdle
    /\ DatesIdle
    /\ SkillsIdle

\* job_entries = self._split_job_entries(exp_text)
SplitJobEntries ==
    /\ ex_pc = "call"
    /\ ex_text # ""
    /\ job_entries' = SplitEntries(split_lines(ex_text), StartsEntry, <<>>)
    /\ ex_pc' = "split"
    /\ UNCHANGED <<ex_blocks, ex_text, experiences>>
    /\ UNCHANGED <<nz_vars, sc_vars, cl_vars, sm_vars, sg_vars, th_vars, pr_vars, dr_vars, sk_vars>>

\* the loop over job_entries and the return
RECURSIVE KeptExperiences(_)
KeptExperiences(entries) ==
    IF entries = <<>> THEN <<>>
    ELSE (IF Kept(ParsedEntry[Head(entries)])
          THEN <<ParsedEntry[Head(entries)]>> ELSE <<>>)
         \o KeptExperiences(Tail(entries))

ParseJobEntries ==
    /\ ex_pc = "split"
    /\ experiences' = KeptExperiences(job_entries)
    /\ ex_pc' = "returned"
    /\ UNCHANGED <<ex_blocks, ex_text, job_entries>>
    /\ UNCHANGED <<nz_vars, sc_vars, cl_vars, sm_vars, sg_vars, th_vars, pr_vars, dr_vars, sk_vars>>

ExperienceNext == SplitJobEntries \/ ParseJobEntries

SpecExperience == ExperienceInit /\ [][ExperienceNext]_vars

(***************************************************************************)
(* _split_job_entries called on its own, on any text.                      *)
(***************************************************************************)
SplitInit ==
    /\ ex_blocks = <<>>
    /\ ex_text \in SplitTexts
    /\ job_entries = <<>>
    /\ experiences = <<>>
    /\ ex_pc = "call"
    /\ NormalizerIdle
    /\ ScorerIdle
    /\ ClassifierIdle
    /\ MatcherIdle
    /\ SegmenterIdle
    /\ ThreadsIdle
    /\ ParserIdle
    /\ DatesIdle
    /\ SkillsIdle

\* self._split_job_entries(text)
SplitText ==
    /\ ex_pc = "call"
    /\ job_entries' = SplitEntries(split_lines(ex_text), StartsEntry, <<>>)
    /\ ex_pc' = "split"
    /\ UNCHANGED <<ex_blocks, ex_text, experiences>>
    /\ UNCHANGED <<nz_vars, sc_vars, cl_vars, sm_vars, sg_vars, th_vars, pr_vars, dr_vars, sk_vars>>

SplitNext == SplitText

SpecSplit == SplitInit /\ [][SplitNext]_vars

(***************************************************************************)
(* detect_sections: one call, the loop taken line by line.                 *)
(***************************************************************************)
SegmenterInit ==
    /\ sg_text \in Texts
    /\ lines = <<>>
    /\ sg_i = 0
    /\ current_section = NoSection
    /\ current_content = <<>>
    /\ sections = <<>>
    /\ saved = <<>>
    /\ sg_pc = "call"
    /\ NormalizerIdle
    /\ ScorerIdle
    /\ ClassifierIdle
    /\ MatcherIdle
    /\ ThreadsIdle
    /\ ExperienceIdle
    /\ ParserIdle
    /\ DatesIdle
    /\ SkillsIdle

\* the statements before the loop
StartScan ==
    /\ sg_pc = "call"
    /\ sections' = <<>>
    /\ lines' = split_lines(sg_text)
    /\ current_section' = HEADER
    /\ current_content' = <<>>
    /\ sg_i' = 0
    /\ sg_pc' = "loop"
    /\ UNCHANGED <<sg_text, saved>>
    /\ UNCHANGED <<nz_vars, sc_vars, cl_vars, sm_vars, th_vars, ex_vars, pr_vars, dr_vars, sk_vars>>

\* "Save previous section" / "Save last section"
SaveCurrent ==
    IF current_content # <<>> /\ ContentOf(current_content) # ""
    THEN /\ sections' = SaveSection(sections, current_section, ContentOf(current_content))
         /\ saved' = Append(saved, [section |-> current_section,
                                    lines |-> current_content,
                                    content |-> ContentOf(current_content)])
    ELSE UNCHANGED <<sections, saved>>

InLoop == sg_pc = "loop" /\ sg_i < Len(lines)
ThisLine == lines[sg_i + 1]

\* an iteration on a blank line
SkipBlank ==
    /\ InLoop
    /\ IsBlank(ThisLine)
    /\ current_content' =
          IF current_content # <<>> THEN Append(current_content, "") ELSE current_content
    /\ sg_i' = sg_i + 1
    /\ UNCHANGED <<sg_text, lines, current_section, sections, saved, sg_pc>>
    /\ UNCHANGED <<nz_vars, sc_vars, cl_vars, sm_vars, th_vars, ex_vars, pr_vars, dr_vars, sk_vars>>

\* an iteration on a section header
OpenSection ==
    /\ InLoop
    /\ ~IsBlank(ThisLine)
    /\ SectionHeaderOf[ThisLine] # NoSection
    /\ SaveCurrent
    /\ current_section' = SectionHeaderOf[ThisLine]
    /\ current_content' = <<>>
    /\ sg_i' = sg_i + 1
    /\ UNCHANGED <<sg_text, lines, sg_pc>>
    /\ UNCHANGED <<nz_vars, sc_vars, cl_vars, sm_vars, th_vars, ex_vars, pr_vars, dr_vars, sk_vars>>

\* an iteration on any other line
KeepLine ==
    /\ InLoop
    /\ ~IsBlank(ThisLine)
    /\ SectionHeaderOf[ThisLine] = NoSection
    /\ current_content' = AppendLine(current_content, ThisLine)
    /\ sg_i' = sg_i + 1
    /\ UNCHANGED <<sg_text, lines, current_section, sections, saved, sg_pc>>
    /\ UNCHANGED <<nz_vars, sc_vars, cl_vars, sm_vars, th_vars, ex_vars, pr_vars, dr_vars, sk_vars>>

\* the statements after the loop
SaveLast ==
    /\ sg_pc = "loop"
    /\ sg_i = Len(lines)
    /\ SaveCurrent
    /\ sg_pc' = "returned"
    /\ UNCHANGED <<sg_text, lines, sg_i, current_section, current_content>>
    /\ UNCHANGED <<nz_vars, sc_vars, cl_vars, sm_vars, th_vars, ex_vars, pr_vars, dr_vars, sk_vars>>

SegmenterNext == StartScan \/ SkipBlank \/ OpenSection \/ KeepLine \/ SaveLast

SpecSegmenter == SegmenterInit /\ [][SegmenterNext]_vars

(***************************************************************************)
(* ResumeParser.parse: one call, statement by statement.  The extractors   *)
(* that are not modelled return any value of their return type, drawn from *)
(* small pools; a statement of the try block may raise instead.            *)
(***************************************************************************)
ParserInputs ==
    {Str(""),
     Str("Jane Doe\r\nSummary\r\nBackend  engineer\r\nSkills\r\nPython"),
     Str("Experience\n\n\n\nEngineer at Acme \nEducation:"),
     None, NonStr("0"), NonStr("5")}

ContactInfo(name, email) ==
    [name |-> name, email |-> email, phone |-> None, linkedin |-> None,
     github |-> None, location |-> None, website |-> None]
ContactPool == {ContactInfo(None, None), ContactInfo(Str("Jane Doe"), Str("jane@doe.org"))}

SkillsOf(technical) ==
    [all |-> technical, technical |-> technical, soft |-> <<>>, languages |-> technical,
     tools |-> <<>>, databases |-> <<>>]
SkillsPool == {SkillsOf(<<>>), SkillsOf(<<"Python">>)}

ExperiencesPool ==
    {<<>>,
     <<[company |-> Str("Acme"), title |-> Str("Engineer"), location |-> None,
        start_date |-> None, end_date |-> None, description |-> <<"Built APIs">>,
        raw_text |-> Str("Engineer at Acme\n- Built APIs")]>>}

EducationsPool ==
    {<<>>,
     <<[degree |-> Str("Bachelor"), field |-> Str("Computer Science"), school |-> None,
        location |-> None, graduation_year |-> Str("2020"), gpa |-> None,
        honors |-> None, raw_text |-> Str("Bachelor of Computer Science, 2020")]>>}

\* the exceptions that a statement of the try block raises
FaultPool ==
    {[kind |-> "AttributeError", message |-> "'NoneType' object has no attribute 'group'"],
     [kind |-> "IndexError", message |-> "list index out of range"],
     [kind |-> "ValueError", message |-> ""]}

\* the exception of text.replace on a true value that is no string
ReplaceFault == [kind |-> "AttributeError", message |-> "'int' object has no attribute 'replace'"]

\* the dicts of the 'experience' and 'education' lists of the result
ExperienceDicts(experience) ==
    [i \in 1..Len(experience) |->
        [company |-> experience[i].company, title |-> experience[i].title,
         location |-> experience[i].location, start_date |-> experience[i].start_date,
         end_date |-> experience[i].end_date, description |-> experience[i].description]]
EducationDicts(education) ==
    [i \in 1..Len(education) |->
        [degree |-> education[i].degree, field |-> education[i].field,
         school |-> education[i].school, location |-> education[i].location,
         graduation_year |-> education[i].graduation_year, gpa |-> education[i].gpa,
         honors |-> education[i].honors]]

ParserInit ==
    /\ pr_input \in ParserInputs
    /\ pr_text = ""
    /\ pr_sections = <<>>
    /\ pr_contact = NoRecord
    /\ pr_skills = NoRecord
    /\ pr_experience = <<>>
    /\ pr_education = <<>>
    /\ pr_fault = NoRecord
    /\ pr_result = NoRecord
    /\ pr_pc = "clean_text"
    /\ NormalizerIdle
    /\ ScorerIdle
    /\ ClassifierIdle
    /\ MatcherIdle
    /\ SegmenterIdle
    /\ ThreadsIdle
    /\ ExperienceIdle
    /\ DatesIdle
    /\ SkillsIdle

\* the statements of the try block, in order
TryStatements ==
    <<"clean_text", "detect_sections", "extract_contact_info", "extract_skills",
      "extract_experience", "extract_education", "build_result">>

\* the except clause, entered with the exception raised
Except(fault) ==
    /\ pr_fault' = fault
    /\ IF Caught(fault)
       THEN /\ pr_result' = FailureResult(fault)
            /\ pr_pc' = "returned"
       ELSE /\ pr_result' = pr_result
            /\ pr_pc' = "raised"
    /\ UNCHANGED <<pr_input, pr_text, pr_sections, pr_contact, pr_skills, pr_experience,
                   pr_education>>
    /\ UNCHANGED <<nz_vars, sc_vars, cl_vars, sm_vars, sg_vars, th_vars, ex_vars, dr_vars, sk_vars>>

\* text = self.clean_text(text)
CleanText ==
    /\ pr_pc = "clean_text"
    /\ ~CleanTextRaises(pr_input)
    /\ pr_text' = clean_text(pr_input)
    /\ pr_pc' = "detect_sections"
    /\ UNCHANGED <<pr_input, pr_sections, pr_contact, pr_skills, pr_experience,
                   pr_education, pr_fault, pr_result>>
    /\ UNCHANGED <<nz_vars, sc_vars, cl_vars, sm_vars, sg_vars, th_vars, ex_vars, dr_vars, sk_vars>>

\* text = self.clean_text(text), text.replace raising
CleanTextFails ==
    /\ pr_pc = "clean_text"
    /\ CleanTextRaises(pr_input)
    /\ Except(ReplaceFault)

\* sections = self.detect_sections(text)
DetectSections ==
    /\ pr_pc = "detect_sections"
    /\ pr_sections' = detect_sections(pr_text)
    /\ pr_pc' = "extract_contact_info"
    /\ UNCHANGED <<pr_input, pr_text, pr_contact, pr_skills, pr_experience,
                   pr_education, pr_fault, pr_result>>
    /\ UNCHANGED <<nz_vars, sc_vars, cl_vars, sm_vars, sg_vars, th_vars, ex_vars, dr_vars, sk_vars>>

\* contact = self.extract_contact_info(text)
ExtractContactInfo ==
    /\ pr_pc = "extract_contact_info"
    /\ pr_contact' \in ContactPool
    /\ pr_pc' = "extract_skills"
    /\ UNCHANGED <<pr_input, pr_text, pr_sections, pr_skills, pr_experience,
                   pr_education, pr_fault, pr_result>>
    /\ UNCHANGED <<nz_vars, sc_vars, cl_vars, sm_vars, sg_vars, th_vars, ex_vars, dr_vars, sk_vars>>

\* skills = self.extract_skills(text)
ExtractSkills ==
    /\ pr_pc = "extract_skills"
    /\ pr_skills' \in SkillsPool
    /\ pr_pc' = "extract_experience"
    /\ UNCHANGED <<pr_input, pr_text, pr_sections, pr_contact, pr_experience,
                   pr_education, pr_fault, pr_result>>
    /\ UNCHANGED <<nz_vars, sc_vars, cl_vars, sm_vars, sg_vars, th_vars, ex_vars, dr_vars, sk_vars>>

\* experience = self.extract_experience(sections)
ExtractExperience ==
    /\ pr_pc = "extract_experience"
    /\ pr_experience' \in ExperiencesPool
    /\ pr_pc' = "extract_education"
    /\ UNCHANGED <<pr_input, pr_text, pr_sections, pr_contact, pr_skills,
                   pr_education, pr_fault, pr_result>>
    /\ UNCHANGED <<nz_vars, sc_vars, cl_vars, sm_vars, sg_vars, th_vars, ex_vars, dr_vars, sk_vars>>

\* education = self.extract_education(sections)
ExtractEducation ==
    /\ pr_pc = "extract_education"
    /\ pr_education' \in EducationsPool
    /\ pr_pc' = "build_result"
    /\ UNCHANGED <<pr_input, pr_text, pr_sections, pr_contact, pr_skills,
                   pr_experience, pr_fault, pr_result>>
    /\ UNCHANGED <<nz_vars, sc_vars, cl_vars, sm_vars, sg_vars, th_vars, ex_vars, dr_vars, sk_vars>>

\* result = {...}; return result
BuildResult ==
    /\ pr_pc = "build_result"
    /\ pr_result' = SuccessResult(pr_sections, pr_contact, pr_skills,
                                  ExperienceDicts(pr_experience),
                                  EducationDicts(pr_education))
    /\ pr_pc' = "returned"
    /\ UNCHANGED <<pr_input, pr_text, pr_sections, pr_contact, pr_skills, pr_experience,
                   pr_education, pr_fault>>
    /\ UNCHANGED <<nz_vars, sc_vars, cl_vars, sm_vars, sg_vars, th_vars, ex_vars, dr_vars, sk_vars>>

\* a statement of the try block raises
StatementRaises ==
    /\ pr_pc \in Range(TryStatements)
    /\ \E fault \in FaultPool : Except(fault)

ParserNext ==
    \/ CleanText
    \/ CleanTextFails
    \/ DetectSections
    \/ ExtractContactInfo
    \/ ExtractSkills
    \/ ExtractExperience
    \/ ExtractEducation
    \/ BuildResult
    \/ StatementRaises

SpecParser == ParserInit /\ [][ParserNext]_vars

(***************************************************************************)
(* _extract_date_range: one call on a text made of a few pieces.           *)
(***************************************************************************)
DatePieces == {"Jan 2020", "Sept. 2018", "03/2019", "2021", "Present", "to", "Engineer"}

DateTexts == {str_join(" ", pieces) : pieces \in SeqsUpTo(DatePieces, MaxDatePieces)}

DatesInit ==
    /\ dr_text \in DateTexts
    /\ dr_dates = None
    /\ dr_pc = "call"
    /\ NormalizerIdle
    /\ ScorerIdle
    /\ ClassifierIdle
    /\ MatcherIdle
    /\ SegmenterIdle
    /\ ThreadsIdle
    /\ ExperienceIdle
    /\ ParserIdle
    /\ SkillsIdle

\* a call that returns from the range pattern
ReturnRange ==
    /\ dr_pc = "call"
    /\ SearchRange(dr_text, 1) # None
    /\ dr_dates' = extract_date_range(dr_text)
    /\ dr_pc' = "returned"
    /\ UNCHANGED dr_text
    /\ UNCHANGED <<nz_vars, sc_vars, cl_vars, sm_vars, sg_vars, th_vars, ex_vars, pr_vars, sk_vars>>

\* a call that returns from the individual dates
ReturnIndividualDates ==
    /\ dr_pc = "call"
    /\ SearchRange(dr_text, 1) = None
    /\ dr_dates' = extract_date_range(dr_text)
    /\ dr_pc' = "returned"
    /\ UNCHANGED dr_text
    /\ UNCHANGED <<nz_vars, sc_vars, cl_vars, sm_vars, sg_vars, th_vars, ex_vars, pr_vars, sk_vars>>

DatesNext == ReturnRange \/ ReturnIndividualDates

SpecDates == DatesInit /\ [][DatesNext]_vars

(***************************************************************************)
(* extract_skills: one call on a text made of a few pieces.                *)
(***************************************************************************)
SkillPieces ==
    {"Python", "python", "SQL Server", "React", "REST and RESTful", "CI / CD",
     "Project Management", "C++11"}

SkillTexts == {str_join(", ", pieces) : pieces \in SeqsUpTo(SkillPieces, MaxSkillPieces)}

SkillsInit ==
    /\ sk_text \in SkillTexts
    /\ sk_skills = NoRecord
    /\ sk_pc = "call"
    /\ NormalizerIdle
    /\ ScorerIdle
    /\ ClassifierIdle
    /\ MatcherIdle
    /\ SegmenterIdle
    /\ ThreadsIdle
    /\ ExperienceIdle
    /\ ParserIdle
    /\ DatesIdle

\* one call of extract_skills
ReturnSkills ==
    /\ sk_pc = "call"
    /\ \E seed \in 0..MaxHashSeed : sk_skills' = extract_skills(sk_text, seed)
    /\ sk_pc' = "returned"
    /\ UNCHANGED sk_text
    /\ UNCHANGED <<nz_vars, sc_vars, cl_vars, sm_vars, sg_vars, th_vars, ex_vars, pr_vars, dr_vars>>

SkillsNext == ReturnSkills

SpecSkills == SkillsInit /\ [][SkillsNext]_vars

(***************************************************************************)
(* Claims about normalize_skill_set, under SpecNormalizer.                  *)
(***************************************************************************)
\* C8: normalize_skill_set is idempotent: normalizing the result of a
\* normalization (of any raw list, "(expert)" and "-" included) changes nothing.
C8_Idempotent == nz_pc = "twice" => renormalized = normalized

\* a skill as the normalizer is said to return it: not empty, not blank,
\* lowercased, without '(', '/' or '-', and without a run of whitespace
CleanSkill(s) ==
    /\ s # ""
    /\ str_strip(s) # ""
    /\ str_lower(s) = s
    /\ \A c \in {"(", "/", "-"} : ~Contains(c, s)
    /\ \A i \in 1..(Len(s) - 1) : ~(IsSpace(CharAt(s, i)) /\ IsSpace(CharAt(s, i + 1)))

\* C25: normalize_skill_set drops non-string and blank entries: every element
\* of the result is a non-empty string that is not blank, is lowercased, and
\* holds no '(', '/', '-' and no repeated whitespace.
C25_CleanElements ==
    nz_pc # "input" => \A s \in normalized : CleanSkill(s)

(***************************************************************************)
(* Claims about RuleBasedScorer.score, under SpecScorer.                   *)
(***************************************************************************)
\* C1: whenever score returns, the returned total is at least 0 and at most
\* 100, whatever the numbers of matched skills, entries and companies.
C1_TotalInRange == sc_pc = "returned" => (0 <= total /\ total <= 100)

\* a return where the components sum to more than 100 and the cap applies
C1_Witness == sc_pc = "returned" /\ SumOf(breakdown) > 100 /\ total = 100

\* C2: every breakdown component is non-negative and within its cap:
\* education_score is 0, 5 or 10; experience_score is at most 15, of which
\* the description bonus is at most 10; projects_score is at most 10;
\* company_score is at most 20.
C2_ComponentCaps ==
    sc_pc = "returned" =>
        /\ breakdown.skills_score >= 0
        /\ breakdown.education_score \in {0, 5, 10}
        /\ breakdown.experience_score \in 0..15
        /\ breakdown.experience_score
              <= ExpTitleScore(resume.experience, required_skills) + 10
        /\ breakdown.projects_score \in 0..10
        /\ breakdown.company_score \in 0..20

\* a return where the description bonus, the experience score and the
\* company score all exceed their caps before capping
C2_Witness ==
    /\ sc_pc = "returned"
    /\ ExpDescBonus(resume.experience, required_skills) > 10
    /\ breakdown.experience_score = 15
    /\ CompanyPoints(resume.experience, PreferredCompanies(job))
          + CompanyPoints(resume.work_experience, PreferredCompanies(job)) > 20
    /\ breakdown.company_score = 20

\* some normalized must-have skill is not in the resume's normalized skills
MustHaveMissing == \E s \in must_have : s \notin resume_skills

\* C3: with S the sum of the five components, the total is
\* min(100, max(0, S - 30)) if some must-have skill is missing (the penalty
\* once, before the cap), and min(100, S) otherwise.
C3_MustHaveGate ==
    sc_pc = "returned" =>
        total = IF MustHaveMissing
                THEN Min(100, Max(0, SumOf(breakdown) - 30))
                ELSE Min(100, SumOf(breakdown))

\* the scenario of the claim: S = 70, one must-have skill missing, total 40
C3_Witness ==
    /\ sc_pc = "returned"
    /\ SumOf(breakdown) = 70
    /\ Cardinality({s \in must_have : s \notin resume_skills}) = 1
    /\ total = 40

\* the must-have penalty shows in the total
Penalized == total # Min(100, SumOf(breakdown))

\* the required must-have skills reported as matched that are no element of
\* the resume's skill set: matched by the partial-matching pass only
PartialOnlyMustHave ==
    {s \in must_have \cap Range(matched_required) : s \notin resume_skills}

\* C26: the must-have gate is decided by exact set membership only: the
\* penalty is subtracted iff some normalized must-have skill is no element of
\* the resume's normalized skill set, whatever the partial-matching pass
\* does; a required must-have skill the partial-matching pass reports in
\* matched_required still has the penalty subtracted for it.
C26_ExactMembershipGate ==
    sc_pc = "returned" =>
        /\ Penalized => MustHaveMissing
        /\ (MustHaveMissing /\ 0 < SumOf(breakdown) /\ SumOf(breakdown) < 100 + MUST_HAVE_PENALTY)
              => Penalized
        /\ PartialOnlyMustHave # {} =>
              total = Min(100, Max(0, SumOf(breakdown) - MUST_HAVE_PENALTY))

\* a required must-have skill is reported in matched_required through a
\* partial match, and the penalty is subtracted in the same call
C26_Witness ==
    /\ sc_pc = "returned"
    /\ PartialOnlyMustHave \cap required_skills # {}
    /\ Penalized
    /\ total = Max(0, SumOf(breakdown) - MUST_HAVE_PENALTY)

NoDuplicates(seq) == Cardinality(Range(seq)) = Len(seq)

\* C4: the returned matched_required and missing_required lists have no
\* duplicates, are disjoint, together hold exactly the normalized required
\* skills, and missing_required is the required set minus matched_required.
C4_Partition ==
    sc_pc = "returned" =>
        /\ NoDuplicates(matched_required)
        /\ NoDuplicates(missing_required)
        /\ Range(matched_required) \cap Range(missing_required) = {}
        /\ Range(matched_required) \cup Range(missing_required) = required_skills
        /\ Range(missing_required) = required_skills \ Range(matched_required)

\* a return with several matched and several missing skills, one of the
\* matched ones found by the partial-matching loop only
C4_Witness ==
    /\ sc_pc = "returned"
    /\ Len(matched_required) >= 2
    /\ Len(missing_required) >= 2
    /\ \E sk \in Range(matched_required) : sk \notin resume_skills

\* the first word of the lowercased education requirement of the job, ""
\* when it has none
RequirementFirstWord ==
    LET words == str_split(str_lower(job.education_required))
    IN  IF words = <<>> THEN "" ELSE words[1]

\* the indices of the education entries that have a degree holding that word
QualifyingEntries ==
    {i \in 1..Len(resume.education) :
        /\ resume.education[i].type \in {"dict", "str"}
        /\ RequirementFirstWord # ""
        /\ Contains(RequirementFirstWord, EduDegree(resume.education[i]))}

\* what one qualifying entry is worth on its own
EntryWorth(i) ==
    IF /\ Contains("computer", str_lower(job.education_required))
       /\ Contains("science", str_lower(job.education_required))
       /\ Contains("comput", EduField(resume.education[i]))
    THEN 10 ELSE 5

\* C16: education_score is decided by the first education entry whose
\* lowercased degree contains the first word of the lowercased requirement:
\* 10 if the requirement holds "computer" and "science" and that entry's
\* field holds "comput", else 5; later entries do not count, and the score is
\* 0 when no entry qualifies.
C16_FirstQualifyingEntry ==
    sc_pc = "returned" =>
        breakdown.education_score =
            IF QualifyingEntries = {} THEN 0
            ELSE EntryWorth(CHOOSE i \in QualifyingEntries :
                                \A k \in QualifyingEntries : i <= k)

\* a return where the first qualifying entry is worth 5 and a later entry,
\* (Bachelor, Computer Science) against "Bachelor Computer Science", would be
\* worth 10
C16_Witness ==
    /\ sc_pc = "returned"
    /\ breakdown.education_score = 5
    /\ job.education_required = "Bachelor Computer Science"
    /\ \E i, k \in QualifyingEntries :
          /\ i < k
          /\ EntryWorth(k) = 10
          /\ resume.education[k] = EduDict(Str("Bachelor"), Str("Computer Science"))

\* the normalized preferred skills of every job
PreferredOf == [j \in Jobs |-> PreferredSkills(j)]

\* the wanted skills that are resume skills, or that have a whitespace-split
\* token of more than 2 characters inside some resume skill
SomeLongTokenIn(tokens, skills) ==
    \E k \in 1..Len(tokens) :
        Len(tokens[k]) > 2 /\ \E s \in skills : Contains(tokens[k], s)

MatchedByRule(wanted) ==
    {r \in wanted : r \in resume_skills \/ SomeLongTokenIn(str_split(r), resume_skills)}

\* C19: the matched required set is the set of normalized required skills
\* that are in the resume's normalized skill set or have a whitespace-split
\* token longer than 2 characters inside some resume skill; the same rule
\* gives the matched preferred set, and skills_score is 10 times the size of
\* the first plus 3 times the size of the second.
C19_MatchedSets ==
    sc_pc = "returned" =>
        /\ Range(matched_required) = MatchedByRule(required_skills)
        /\ breakdown.skills_score =
              10 * Cardinality(MatchedByRule(required_skills))
              + 3 * Cardinality(MatchedByRule(PreferredOf[job]))

\* a return with a required skill matched by a token only, a preferred skill
\* matched, and an unmatched required skill whose only token is short and
\* lies inside a resume skill
C19_Witness ==
    /\ sc_pc = "returned"
    /\ \E r \in Range(matched_required) : r \notin resume_skills
    /\ MatchedByRule(PreferredOf[job]) # {}
    /\ \E r \in Range(missing_required) :
          /\ r # ""
          /\ Len(r) <= 2
          /\ \E s \in resume_skills : Contains(r, s)

\* C18: a call of score leaves the resume record and the job record as they
\* were before the call, and the breakdown it returns is a new object: its
\* identity is none of those returned before, and the breakdowns returned
\* before keep their contents.
C18_InputsUnchanged ==
    [][sc_pc = "call" =>
          /\ resume' = resume
          /\ job' = job
          /\ sc_pc' = "returned" =>
                /\ sc_held'[Len(sc_held')] \notin Range(sc_held)
                /\ \A id \in Range(sc_held) : sc_heap'[id] = sc_heap[id]]_vars

\* the second call of a caller has returned a breakdown that differs from
\* the one of the first call, which the caller still holds
C18_Witness ==
    /\ sc_pc = "returned"
    /\ Len(sc_held) = 2
    /\ sc_heap[sc_held[1]] # sc_heap[sc_held[2]]
    /\ breakdown = sc_heap[sc_held[2]]
    /\ breakdown # NoBreakdown

\* a sequence without the members that fail a test
RECURSIVE SelectFrom(_, _)
SelectFrom(seq, keep) ==
    IF seq = <<>> THEN <<>>
    ELSE (IF Head(seq) \in keep THEN <<Head(seq)>> ELSE <<>>) \o SelectFrom(Tail(seq), keep)

\* a list with its strings only
StringsOf(items) == SelectFrom(items, {x \in Range(items) : isinstance_str(x)})

\* the resume with everything that cannot be interpreted taken out: entries
\* that are neither mappings nor strings, and list elements that are not
\* strings
Interpretable(r) ==
    [r EXCEPT
        !.education = SelectFrom(@, {e \in Range(@) : e.type \in {"dict", "str"}}),
        !.experience = SelectFrom(@, {e \in Range(@) : e.type \in {"dict", "str"}}),
        !.projects =
            LET kept == SelectFrom(@, {e \in Range(@) : e.type \in {"dict", "str"}})
            IN  [i \in 1..Len(kept) |->
                    [kept[i] EXCEPT !.technologies = StringsOf(@)]]]

\* the job asks for an education made of blanks only
BlankRequirement ==
    job.education_required # "" /\ str_split(job.education_required) = <<>>

\* C17: on a resume whose skills and technical_skills are a category
\* mapping, a flat list or absent, and whose experience, education and
\* projects entries are mappings, strings or values of another type, score
\* returns a result instead of failing, and what cannot be interpreted
\* contributes nothing: the result is that of the resume without it.
C17_ShapeTolerance ==
    (sc_pc \in {"returned", "raised"} /\ ~BlankRequirement) =>
        /\ sc_pc = "returned"
        /\ breakdown = ScoreResult(Interpretable(resume), job).breakdown
        /\ total = ScoreResult(Interpretable(resume), job).total

(***************************************************************************)
(* Claims about ResumeScorer.classify, under SpecClassifier.               *)
(***************************************************************************)
\* C5: classify returns "Suitable" iff score >= suitable_threshold, "Maybe
\* Suitable" iff maybe_threshold <= score < suitable_threshold, and "Not
\* Suitable" otherwise; a score equal to suitable_threshold is "Suitable"
\* and, when maybe_threshold < suitable_threshold, a score one unit below
\* suitable_threshold is in the next lower band, "Maybe Suitable".
C5_Bands ==
    cl_pc = "returned" =>
        /\ cl_label = "Suitable" <=> cl_score >= suitable_threshold
        /\ cl_label = "Maybe Suitable"
              <=> (maybe_threshold <= cl_score /\ cl_score < suitable_threshold)
        /\ cl_label = "Not Suitable"
              <=> (cl_score < suitable_threshold /\ cl_score < maybe_threshold)
        /\ cl_score = suitable_threshold => cl_label = "Suitable"
        /\ (maybe_threshold < suitable_threshold /\ cl_score = suitable_threshold - 1)
              => cl_label = "Maybe Suitable"

\* the threshold itself classified "Suitable", then one unit below it
\* classified "Maybe Suitable"
C5_Witness ==
    /\ cl_pc = "returned"
    /\ maybe_threshold < suitable_threshold
    /\ cl_prev_score = suitable_threshold
    /\ cl_prev_label = "Suitable"
    /\ cl_score = suitable_threshold - 1
    /\ cl_label = "Maybe Suitable"

\* the order of the labels: "Not Suitable" < "Maybe Suitable" < "Suitable"
LabelRank(label) ==
    CASE label = "Not Suitable" -> 0
      [] label = "Maybe Suitable" -> 1
      [] label = "Suitable" -> 2

\* C28: classify is monotone in the score for every pair of thresholds, a
\* pair with maybe_threshold > suitable_threshold included: of two scores
\* classified by one scorer, the lower one never gets the higher label.
C28_Monotone ==
    (cl_pc = "returned" /\ cl_prev_label # "") =>
        /\ cl_prev_score <= cl_score => LabelRank(cl_prev_label) <= LabelRank(cl_label)
        /\ cl_score <= cl_prev_score => LabelRank(cl_label) <= LabelRank(cl_prev_label)

\* a scorer with maybe_threshold > suitable_threshold has classified a score
\* below both thresholds and then a score between them
C28_Witness ==
    /\ cl_pc = "returned"
    /\ maybe_threshold > suitable_threshold
    /\ cl_prev_score < suitable_threshold
    /\ cl_prev_label = "Not Suitable"
    /\ suitable_threshold <= cl_score
    /\ cl_score < maybe_threshold
    /\ cl_label = "Suitable"

(***************************************************************************)
(* Claims about SemanticMatcher, under SpecMatcher.                        *)
(***************************************************************************)
\* (0.6 * sem + 0.4 * cov) * 100, clamped to [0, 100]
ClampedComposite(sem, cov) ==
    RatMax(Rat(0, 1),
           RatMin(Rat(100, 1),
                  Rat(60 * sem.num * cov.den + 40 * cov.num * sem.den, sem.den * cov.den)))

InUnitInterval(x) == RatLeq(Rat(0, 1), x) /\ RatLeq(x, Rat(1, 1))

\* C6: compute_composite_score returns (0.6 * similarity + 0.4 * coverage)
\* * 100 clamped to [0, 100], for similarity and coverage in [0, 1]; of two
\* results with equal similarity the one with the larger coverage is not
\* smaller, and of two results with equal coverage the one with the larger
\* similarity is not smaller.
C6_Composite ==
    /\ (sm_op = "compute_composite_score" /\ sm_status = "returned") =>
           /\ InUnitInterval(semantic)
           /\ InUnitInterval(skill_coverage)
           /\ sm_result = ClampedComposite(semantic, skill_coverage)
    /\ \A a \in composites : a.score = ClampedComposite(a.semantic, a.skill_coverage)
    /\ \A a, b \in composites :
           /\ (a.semantic = b.semantic /\ RatLeq(a.skill_coverage, b.skill_coverage))
                 => RatLeq(a.score, b.score)
           /\ (a.skill_coverage = b.skill_coverage /\ RatLeq(a.semantic, b.semantic))
                 => RatLeq(a.score, b.score)

\* three results of one matcher: two with equal similarity and different
\* coverage, two with equal coverage and different similarity
C6_Witness ==
    \E a, b, c \in composites :
        /\ a.semantic = b.semantic
        /\ RatLess(a.skill_coverage, b.skill_coverage)
        /\ RatLess(a.score, b.score)
        /\ a.skill_coverage = c.skill_coverage
        /\ RatLess(a.semantic, c.semantic)
        /\ RatLess(a.score, c.score)

\* C7: compute_skill_coverage returns |N(required) \cap N(resume skills)| /
\* |N(required)| with N the skill normalizer applied to both sides, 0 when
\* the required set is empty, and always a value in [0, 1]; so a required
\* skill such as "CI/CD Pipelines" is covered by a resume listing it.
C7_Coverage ==
    (sm_op = "compute_skill_coverage" /\ sm_status = "returned") =>
        /\ InUnitInterval(sm_result)
        /\ sm_result =
              IF RequiredSkills(sm_job) = {} THEN Rat(0, 1)
              ELSE Rat(Cardinality(RequiredSkills(sm_job) \cap ResumeSkills(sm_resume)),
                       Cardinality(RequiredSkills(sm_job)))

\* the three cached fields of the matcher
Caches == <<job_embedding, tfidf_vectorizer, tfidf_job_vec>>

\* C13: the job embedding, the lexical vectorizer and the job lexical vector
\* are each built at most once: only a compute_similarity call (made
\* directly or by compute_composite_score) sets them, such a call that
\* returns leaves all three set, and no later call of any of the three
\* methods changes a field that is set.
C13_CachedOnce ==
    [][/\ job_embedding # NoEmbedding => job_embedding' = job_embedding
       /\ tfidf_vectorizer # NoVectorizer => tfidf_vectorizer' = tfidf_vectorizer
       /\ tfidf_job_vec # NoJobVec => tfidf_job_vec' = tfidf_job_vec
       /\ Caches' # Caches =>
             sm_op' \in {"compute_similarity", "compute_composite_score"}
       /\ (/\ sm_op' \in {"compute_similarity", "compute_composite_score"}
           /\ sm_status' = "returned") =>
             /\ job_embedding' # NoEmbedding
             /\ tfidf_vectorizer' # NoVectorizer
             /\ tfidf_job_vec' # NoJobVec]_vars

\* a compute_similarity call has returned for a job other than the one the
\* three fields were built from, after calls of the other two methods
C13_Witness ==
    /\ sm_op = "compute_similarity"
    /\ sm_status = "returned"
    /\ job_embedding # NoEmbedding
    /\ tfidf_job_vec # NoJobVec
    /\ job_embedding # encode(model, TextOfJob[sm_job])
    /\ tfidf_job_vec # JobVec(TextOfJob[sm_job])
    /\ composites # {}

\* what compute_similarity(a, r) returns on a matcher whose cache is empty
FirstCallResult(a, r) ==
    SimilarityOf(model, encode(model, TextOfJob[a]), TextOfJob[a], TextOfResume[r])

\* the three fields were built from job a
BoundTo(a) ==
    /\ job_embedding = encode(model, TextOfJob[a])
    /\ tfidf_vectorizer = Vectorizer("fitted", TextOfJob[a])
    /\ tfidf_job_vec = JobVec(TextOfJob[a])

\* C24: a matcher is bound to the first job it computes a similarity for:
\* once compute_similarity has built the fields from job A, a later
\* compute_similarity call with any job B and resume R returns what the call
\* with A and R returns, compute_skill_coverage still uses the job it is
\* given, and compute_composite_score for B blends the similarity against A
\* with the coverage against B.
C24_BoundToFirstJob ==
    [][\A a \in DOMAIN TextOfJob :
          BoundTo(a) =>
             /\ BoundTo(a)'
             /\ (sm_op' = "compute_similarity" /\ sm_status' = "returned") =>
                   sm_result' = FirstCallResult(a, sm_resume')
             /\ (sm_op' = "compute_skill_coverage" /\ sm_status' = "returned") =>
                   sm_result' = CoverageTable[sm_job', sm_resume']
             /\ (sm_op' = "compute_composite_score" /\ sm_status' = "returned") =>
                   /\ semantic' = FirstCallResult(a, sm_resume')
                   /\ skill_coverage' = CoverageTable[sm_job', sm_resume']
                   /\ sm_result' = CompositeOf(semantic', skill_coverage')]_vars

\* compute_composite_score has returned for a job B on a matcher bound to
\* another job A: the similarity is not the one of B, the coverage is
C24_Witness ==
    /\ sm_op = "compute_composite_score"
    /\ sm_status = "returned"
    /\ \E a \in DOMAIN TextOfJob \ {sm_job} :
          /\ BoundTo(a)
          /\ semantic = FirstCallResult(a, sm_resume)
    /\ semantic # FirstCallResult(sm_job, sm_resume)
    /\ skill_coverage = CoverageTable[sm_job, sm_resume]
    /\ skill_coverage # NoValue

\* C27: in every state reachable by compute_similarity calls on one matcher,
\* calls that end in an error included, the lexical vectorizer is present iff
\* the cached job lexical vector is present.
C27_VectorizerIffJobVector ==
    tfidf_vectorizer # NoVectorizer <=> tfidf_job_vec # NoJobVec

(***************************************************************************)
(* Claims about concurrent compute_similarity calls, under SpecThreads.    *)
(***************************************************************************)
\* what compute_similarity returns for the job and the resume of thread t
\* when the calls run one after another
SequentialResult(t) ==
    SimilarityOf(model, encode(model, TextOfJob[th_job]), TextOfJob[th_job],
                 TextOfResume[th_resume[t]])

\* C14: when several compute_similarity calls for the same job run at the
\* same time on one matcher whose cache is empty, every call completes
\* without error and returns the value it returns when the calls run one
\* after another, under every interleaving of the initialization steps.
C14_ConcurrentCalls ==
    \A t \in DOMAIN th_pc :
        /\ th_pc[t] # "raised"
        /\ th_pc[t] = "returned" => th_result[t] = SequentialResult(t)

(***************************************************************************)
(* Claims about extract_experience, under SpecExperience.                  *)
(***************************************************************************)
\* the bullets of a job block, without their markers
BulletsOfBlock(b) == [i \in 1..Len(b.bullets) |-> str_strip(From(b.bullets[i], 2))]

\* C15: for an experience section made of two consecutive job blocks, each
\* a "Month YYYY - Month YYYY" line, its title/company line and its bullet
\* lines, extract_experience returns exactly two records, and the
\* description of each holds exactly the bullets of its own block, in order.
C15_TwoBlocksTwoRecords ==
    ex_pc = "returned" =>
        /\ Len(experiences) = 2
        /\ \A i \in 1..2 : experiences[i].description = BulletsOfBlock(ex_blocks[i])

\* a string that is present and not empty
NonEmptyString(v) == isinstance_str(v) /\ v.val # ""

\* the entries, parsed, without those that give neither company nor title
RECURSIVE NamedRecords(_)
NamedRecords(entries) ==
    IF entries = <<>> THEN <<>>
    ELSE (IF \/ NonEmptyString(ParsedEntry[Head(entries)].company)
             \/ NonEmptyString(ParsedEntry[Head(entries)].title)
          THEN <<ParsedEntry[Head(entries)]>> ELSE <<>>)
         \o NamedRecords(Tail(entries))

\* C21: every record that extract_experience returns has a company or a
\* title that is a non-empty string; the entries that give neither are
\* discarded, and every split entry gives at most one record: the records
\* are those of the entries that give a company or a title, in order.
C21_RecordsAreNamed ==
    ex_pc = "returned" =>
        /\ \A i \in 1..Len(experiences) :
               NonEmptyString(experiences[i].company) \/ NonEmptyString(experiences[i].title)
        /\ Len(experiences) <= Len(job_entries)
        /\ experiences = NamedRecords(job_entries)

\* entries without company and title were discarded, one record has a title
\* and no company, another has both
C21_Witness ==
    /\ ex_pc = "returned"
    /\ Len(experiences) < Len(job_entries)
    /\ \E i \in 1..Len(experiences) :
           experiences[i].company = None /\ NonEmptyString(experiences[i].title)
    /\ \E i \in 1..Len(experiences) :
           NonEmptyString(experiences[i].company) /\ NonEmptyString(experiences[i].title)

\* the entries as _split_job_entries returns them: '\n'.join(current_entry)
EntryStrings == [n \in 1..Len(job_entries) |-> str_join("\n", job_entries[n])]

\* C30: _split_job_entries partitions its input at trigger lines without
\* loss: joining the returned entries with newlines gives back the input
\* text exactly, and within every entry no line other than its first is a
\* new-entry trigger.
C30_LosslessPartition ==
    ex_pc = "split" =>
        /\ str_join("\n", EntryStrings) = ex_text
        /\ \A n \in 1..Len(EntryStrings) :
              \A k \in 2..Len(split_lines(EntryStrings[n])) :
                  ~StartsEntry[split_lines(EntryStrings[n])[k]]

\* a text of a leading line that is no trigger, a blank line and an
\* indented date line has been split into two entries
C30_Witness ==
    /\ ex_pc = "split"
    /\ Len(job_entries) = 2
    /\ Len(job_entries[1]) = 2
    /\ ~StartsEntry[job_entries[1][1]]
    /\ job_entries[1][2] = ""
    /\ job_entries[2] = <<"  03/2019">>
    /\ StartsEntry["  03/2019"]

\* the texts of the matches of a pattern, scanning from position i
RECURSIVE MatchTexts(_, _, _)
MatchTexts(pattern_name, s, i) ==
    IF i > Len(s) THEN <<>>
    ELSE IF DateEnd(pattern_name, s, i) # 0
         THEN <<SubSeq(s, i, DateEnd(pattern_name, s, i) - 1)>>
              \o MatchTexts(pattern_name, s, DateEnd(pattern_name, s, i))
    ELSE MatchTexts(pattern_name, s, i + 1)

\* the texts of the standalone date matches, collected pattern by pattern
RECURSIVE DateMatches(_, _)
DateMatches(s, k) ==
    IF k > Len(date_patterns) THEN <<>>
    ELSE MatchTexts(date_patterns[k], s, 1) \o DateMatches(s, k + 1)

\* C22: when the range pattern matches nowhere in the text,
\* _extract_date_range returns the first two standalone date matches when
\* there are two or more, the only one with "Present" when there is one, and
\* no dates when there is none, every date being the full text of its match.
C22_StandaloneDates ==
    (dr_pc = "returned" /\ SearchRange(dr_text, 1) = None) =>
        dr_dates =
            IF Len(DateMatches(dr_text, 1)) >= 2
            THEN Dates(DateMatches(dr_text, 1)[1], DateMatches(dr_text, 1)[2])
            ELSE IF Len(DateMatches(dr_text, 1)) = 1
                 THEN Dates(DateMatches(dr_text, 1)[1], "Present")
            ELSE None

(***************************************************************************)
(* Claims about extract_skills, under SpecSkills.                          *)
(***************************************************************************)
\* the names of the frameworks and of the canonical variant skills
FrameworkNames == Range(tech_skills[2].skills)
CanonicalNames == {variant_patterns[k].canonical : k \in 1..Len(variant_patterns)}

\* C23: in the mapping returned by extract_skills every category list is
\* free of duplicates, 'all' holds exactly the members of 'technical' and
\* 'soft', 'languages', 'tools' and 'databases' hold members of 'technical'
\* only, a framework found is under 'tools', and a canonical variant skill
\* is in 'technical' and 'all' and in no other list.
C23_SkillCategories ==
    sk_pc = "returned" =>
        /\ \A key \in DOMAIN sk_skills : NoDuplicates(sk_skills[key])
        /\ Range(sk_skills.all) = Range(sk_skills.technical) \cup Range(sk_skills.soft)
        /\ Range(sk_skills.languages) \subseteq Range(sk_skills.technical)
        /\ Range(sk_skills.tools) \subseteq Range(sk_skills.technical)
        /\ Range(sk_skills.databases) \subseteq Range(sk_skills.technical)
        /\ Range(sk_skills.technical) \cap FrameworkNames \subseteq Range(sk_skills.tools)
        /\ \A key \in DOMAIN sk_skills \ {"technical", "all"} :
               Range(sk_skills[key]) \cap CanonicalNames = {}

\* a text with a framework, a soft skill matched twice over and a variant
\* matched by two patterns gave lists that hold each of them once
C23_Witness ==
    /\ sk_pc = "returned"
    /\ "React" \in Range(sk_skills.tools)
    /\ "REST" \in Range(sk_skills.technical)
    /\ "REST" \in Range(sk_skills.all)
    /\ Len(sk_skills.all) = 2

(***************************************************************************)
(* Claims about detect_sections, under SpecSegmenter.                      *)
(***************************************************************************)
SetMax(S) == CHOOSE x \in S : \A y \in S : y <= x
SetMin(S) == CHOOSE x \in S : \A y \in S : x <= y

\* the lines of the input that are section headers
IsHeaderAt(k) == ~IsBlank(lines[k]) /\ SectionHeaderOf[lines[k]] # NoSection
HeadersBefore(k) == {h \in 1..(k - 1) : IsHeaderAt(h)}

\* the section open at line k: that of the last header before it
OpenAt(k) ==
    IF HeadersBefore(k) = {} THEN HEADER
    ELSE SectionHeaderOf[lines[SetMax(HeadersBefore(k))]]

\* the non-blank, non-header lines among the first n lines, in input order,
\* each with the section open at it
RECURSIVE KeptUpTo(_)
KeptUpTo(n) ==
    IF n = 0 THEN <<>>
    ELSE KeptUpTo(n - 1)
         \o (IF IsBlank(lines[n]) \/ IsHeaderAt(n) THEN <<>>
             ELSE <<[section |-> OpenAt(n), line |-> lines[n]]>>)

\* the non-blank lines accumulated for one segment
RECURSIVE NonBlankOf(_, _)
NonBlankOf(section, content_lines) ==
    IF content_lines = <<>> THEN <<>>
    ELSE (IF IsBlank(Head(content_lines)) THEN <<>>
          ELSE <<[section |-> section, line |-> Head(content_lines)]>>)
         \o NonBlankOf(section, Tail(content_lines))

\* the non-blank lines of the first n saved segments, in order
RECURSIVE SavedUpTo(_)
SavedUpTo(n) ==
    IF n = 0 THEN <<>>
    ELSE SavedUpTo(n - 1) \o NonBlankOf(saved[n].section, saved[n].lines)

\* all that has been accumulated: the saved segments and the open one
Accumulated ==
    SavedUpTo(Len(saved))
    \o (IF sg_pc = "loop" THEN NonBlankOf(current_section, current_content) ELSE <<>>)

StrippedLines(pairs) == [k \in 1..Len(pairs) |-> str_strip(pairs[k].line)]

\* C9: detect_sections never drops non-blank content while scanning: the
\* non-blank lines of the accumulated segments (every saved one, whether or
\* not it is overwritten later, and the open one) are exactly the non-blank,
\* non-header lines handled so far, in input order, each in the segment of
\* the section open at that line; and every saved content string still holds
\* the lines of its segment.
C9_NoContentDropped ==
    sg_pc \in {"loop", "returned"} =>
        /\ Accumulated = KeptUpTo(sg_i)
        /\ \A n \in 1..Len(saved) :
              StrippedLines(NonBlankOf(saved[n].section, split_lines(saved[n].content)))
                 = StrippedLines(NonBlankOf(saved[n].section, saved[n].lines))

\* a finished scan over a header, a blank line kept as a continuation and
\* content lines in two segments
C9_Witness ==
    /\ sg_pc = "returned"
    /\ Len(saved) >= 2
    /\ \E n \in 1..Len(saved) : "" \in Range(saved[n].lines)
    /\ \E k \in 1..Len(lines) : IsHeaderAt(k)
    /\ Len(KeptUpTo(Len(lines))) >= 2

\* the headers of one kind, and where the segment of a header ends
HeadersOf(kind) == {h \in 1..Len(lines) : IsHeaderAt(h) /\ SectionHeaderOf[lines[h]] = kind}
LaterHeaders(h) == {k \in (h + 1)..Len(lines) : IsHeaderAt(k)}
SegmentEnd(h) == IF LaterHeaders(h) = {} THEN Len(lines) ELSE SetMin(LaterHeaders(h)) - 1

\* the content of the occurrence opened by the header at line h
OccurrenceContent(h) ==
    str_strip(str_join("\n", [k \in 1..(SegmentEnd(h) - h) |->
                                 IF IsBlank(lines[h + k]) THEN "" ELSE lines[h + k]]))

WithContent(kind) == {h \in HeadersOf(kind) : OccurrenceContent(h) # ""}

SectionKinds == {section_patterns[k].section_type : k \in 1..Len(section_patterns)}

\* C10: when headers of one section kind occur more than once, the returned
\* mapping holds for that kind exactly the content of the last occurrence
\* that has non-empty content, nothing of the earlier occurrences merged in
\* (and no entry when no occurrence has content).
C10_LastWins ==
    sg_pc = "returned" =>
        \A kind \in SectionKinds :
            Cardinality(HeadersOf(kind)) >= 2 =>
                IF WithContent(kind) = {} THEN kind \notin DOMAIN sections
                ELSE /\ kind \in DOMAIN sections
                     /\ sections[kind] = OccurrenceContent(SetMax(WithContent(kind)))

\* a returned mapping for a text with two occurrences of one kind that have
\* different non-empty contents
C10_Witness ==
    /\ sg_pc = "returned"
    /\ \E kind \in SectionKinds :
          \E h1, h2 \in WithContent(kind) :
              /\ h1 < h2
              /\ OccurrenceContent(h1) # OccurrenceContent(h2)
              /\ sections[kind] = OccurrenceContent(h2)
              /\ ~Contains(OccurrenceContent(h1), sections[kind])

\* the priority of the section kinds
KindPriority ==
    <<"summary", "experience", "education", "skills", "certifications", "projects",
      "accomplishments">>

\* the ranks, in KindPriority, of the kinds a cleaned header text is listed under
RanksListing(clean) ==
    {n \in 1..Len(KindPriority) :
        \E k \in 1..Len(section_patterns) :
            /\ section_patterns[k].section_type = KindPriority[n]
            /\ MatchesAny(section_patterns[k].phrases, clean)}

\* the kind a line is classified as by the priority; a cleaned line of more
\* than 50 characters is no header text
KindByPriority(line) ==
    IF Len(clean_line(line)) > HeaderMaxLen \/ RanksListing(clean_line(line)) = {}
    THEN NoSection
    ELSE KindPriority[SetMin(RanksListing(clean_line(line)))]

\* C29: a section header is classified by a fixed priority of the kinds
\* (summary, experience, education, skills, certifications, projects,
\* accomplishments): the line that has just been scanned as a header opened
\* the earliest kind its text is listed under, so "Qualifications" opens
\* education and never skills; and the mapping of detect_sections never has
\* the keys contact, languages or unknown, nor an empty value.
C29_HeaderPriority ==
    sg_pc \in {"loop", "returned"} =>
        /\ (sg_i >= 1 /\ IsHeaderAt(sg_i)) =>
              /\ current_section = KindByPriority(lines[sg_i])
              /\ clean_line(lines[sg_i]) = "qualifications" => current_section = "education"
        /\ \A k \in 1..sg_i : ~IsBlank(lines[k]) =>
              (IsHeaderAt(k) <=> KindByPriority(lines[k]) # NoSection)
        /\ DOMAIN sections \cap {"contact", "languages", "unknown"} = {}
        /\ \A kind \in DOMAIN sections : str_strip(sections[kind]) # ""

\* a finished scan in which a "Qualifications" line, listed under education
\* and under skills, opened a section that was saved as education
C29_Witness ==
    /\ sg_pc = "returned"
    /\ \E k \in 1..Len(lines) :
          /\ clean_line(lines[k]) = "qualifications"
          /\ Cardinality(RanksListing(clean_line(lines[k]))) = 2
          /\ OccurrenceContent(k) # ""
    /\ "education" \in DOMAIN sections
    /\ "skills" \notin DOMAIN sections

\* C20: in detect_sections a line of more than 50 characters is never
\* treated as a section header, a header word with trailing colons, dashes
\* or spaces or with leading symbols included: the iteration on such a line
\* keeps the section open and appends the line to its content.
C20_LongLineIsContent ==
    [][IF InLoop
       THEN Len(ThisLine) > 50 =>
               /\ current_section' = current_section
               /\ current_content' = Append(current_content, ThisLine)
       ELSE TRUE]_vars

(***************************************************************************)
(* Claims about ResumeParser.parse, under SpecParser.                      *)
(***************************************************************************)
\* parse has returned from its except clause
FailureReturned == pr_pc = "returned" /\ pr_fault # NoRecord

\* the keys of the mapping returned on success
SuccessKeys ==
    {"contact", "summary", "skills", "experience", "education", "sections", "metadata"}

\* C11: parse never raises to its caller; when a statement of cleaning,
\* segmentation or extraction raises, the call returns a mapping whose
\* metadata.parsing_success is false, that carries the error string, and in
\* which contact, skills, experience and education are present and hold
\* nothing (skills being a mapping whose every list is empty).
C11_FaultsAreCaught ==
    /\ pr_pc # "raised"
    /\ FailureReturned =>
          /\ {"error", "contact", "skills", "experience", "education", "metadata"}
                 \subseteq DOMAIN pr_result
          /\ pr_result.metadata.parsing_success = FALSE
          /\ pr_result.error = pr_fault.message
          /\ pr_result.contact = <<>>
          /\ \A k \in DOMAIN pr_result.skills : pr_result.skills[k] = <<>>
          /\ pr_result.experience = <<>>
          /\ pr_result.education = <<>>

\* a statement after the extraction of skills raised, with skills found and
\* sections detected, and the call returned the failure mapping
C11_Witness ==
    /\ FailureReturned
    /\ pr_fault.kind = "IndexError"
    /\ pr_skills \in SkillsPool
    /\ pr_skills.all # <<>>
    /\ DOMAIN pr_sections # {}
    /\ pr_result.skills.all = <<>>

\* C12: on an internal failure parse returns the same shape as on success: a
\* mapping with all of the keys contact, summary, skills, experience,
\* education, sections and metadata, with parsing_success false and an error
\* message.
C12_FailureHasSuccessShape ==
    FailureReturned =>
        /\ SuccessKeys \subseteq DOMAIN pr_result
        /\ "error" \in DOMAIN pr_result
        /\ pr_result.metadata.parsing_success = FALSE

=============================================================================
